---------------------------- MODULE Spec2Model ----------------------------
(***************************************************************************)
(* A model of the process-cache library: the name normalizer, the          *)
(* ProcessManager (get-or-create of process and job rows behind an         *)
(* in-memory index), the Machine accessor (cache and log rows scoped to a  *)
(* machine) and the Job facade (load, extension points, syncCache).        *)
(*                                                                         *)
(* Strings are sequences of one-character strings.  Every handler is an    *)
(* async function: it is split into one action per stretch of code between *)
(* two awaits of a storage call, which is where the code can be suspended. *)
(***************************************************************************)
EXTENDS Integers, Sequences, FiniteSets, TLC

(***************************************************************************)
(* Bounds                                                                  *)
(***************************************************************************)
MaxLen == 3        \* longest raw string fed to the normalizer
NumSessions == 2   \* ProcessManager / Machine / Job instances
MaxCalls == 3      \* calls issued per instance
MaxTime == 2       \* largest value of the wall clock (seconds)

Sessions == 1..NumSessions

(***************************************************************************)
(* Strings and the name normalizer                                         *)
(***************************************************************************)
WhiteSpace == {" "}
Separators == WhiteSpace \cup {"*", ",", ".", "-"}
Alphabet == {"a", "A", "b", " ", "*", ",", ".", "-"}

RECURSIVE StringsUpTo(_)
StringsUpTo(n) ==
    IF n = 0 THEN {<<>>}
    ELSE LET shorter == StringsUpTo(n - 1)
         IN  shorter \cup {Append(s, c) : s \in {t \in shorter : Len(t) = n - 1}, c \in Alphabet}

\* String.prototype.toLowerCase on one character
LowerChar(c) ==
    CASE c = "A" -> "a"
      [] c = "B" -> "b"
      [] c = "F" -> "f"
      [] c = "J" -> "j"
      [] c = "H" -> "h"
      [] c = "W" -> "w"
      [] OTHER -> c

ToLowerCase(s) == [i \in 1..Len(s) |-> LowerChar(s[i])]

RECURSIVE TrimStart(_)
TrimStart(s) ==
    IF s # <<>> /\ Head(s) \in WhiteSpace THEN TrimStart(Tail(s)) ELSE s

RECURSIVE TrimEnd(_)
TrimEnd(s) ==
    IF s # <<>> /\ s[Len(s)] \in WhiteSpace THEN TrimEnd(SubSeq(s, 1, Len(s) - 1)) ELSE s

\* String.prototype.trim
Trim(s) == TrimEnd(TrimStart(s))

\* s.replace(/[class]+/g, '-'): every maximal run of characters of the class
\* becomes one dash
RECURSIVE ReplaceRuns(_, _)
ReplaceRuns(s, class) ==
    IF s = <<>> THEN <<>>
    ELSE IF Head(s) \in class
         THEN IF Len(s) > 1 /\ s[2] \in class
              THEN ReplaceRuns(Tail(s), class)
              ELSE <<"-">> \o ReplaceRuns(Tail(s), class)
         ELSE <<Head(s)>> \o ReplaceRuns(Tail(s), class)

\* a slip for the first replace: the class is \s alone
ReplaceWhiteSpaceOnly(s) == ReplaceRuns(s, WhiteSpace)

\* s.replace(/[\s\*\,\.\-]+/g, '-')
ReplaceSeparators(s) == ReplaceRuns(s, Separators)

\* A slip for the second replace: .replace(/[\-]+/, '') removes the first run
\* of dashes instead of collapsing every run.
RECURSIVE RemoveFirstDashRun(_)
RemoveFirstDashRun(s) ==
    IF s = <<>> THEN <<>>
    ELSE IF Head(s) = "-"
         THEN IF Len(s) > 1 /\ s[2] = "-" THEN RemoveFirstDashRun(Tail(s)) ELSE Tail(s)
         ELSE <<Head(s)>> \o RemoveFirstDashRun(Tail(s))

\* s.replace(/[\-]+/g, '-')
CollapseDashes(s) == ReplaceRuns(s, {"-"})

formatProcessName(processName) ==
    Trim(CollapseDashes(Trim(ReplaceSeparators(ToLowerCase(Trim(processName))))))

formatJobName(jobName) == formatProcessName(jobName)

(***************************************************************************)
(* State                                                                   *)
(***************************************************************************)
VARIABLES
    processes,    \* storage: rows of table processes
    jobs,         \* storage: rows of table process_jobs
    cache,        \* storage: rows of table process_cache
    now,          \* moment().unix()
    processList,  \* ProcessManager.processList, per instance
    jobList,      \* ProcessManager.jobList, per instance
    call,         \* the ProcessManager call in flight, per instance
    returned,     \* history: the calls of each instance that resolved, in order
    instanceOf,   \* the ProcessManager instance each call slot belongs to
    inserts,      \* history: how many times each create() call was issued to storage
    logs,         \* storage: rows of table process_job_logs
    lret,         \* the Machine log call that completed last, with what it returned
    dialect,      \* the SQL dialect the Database was constructed with
    machine,      \* Machine.machine, per instance
    mret,         \* the Machine call that completed last, with what it returned
    thisProcessName, \* Job.processName, per instance
    thisJobName,  \* Job.jobName, per instance
    thisProcess,  \* Job.process, per instance
    thisProcessJob, \* Job.processJob, per instance
    cacheResults, \* Job.cacheResults, per instance
    cacheTree,    \* Job.cacheTree, per instance
    jpc,          \* where each Job is in load() / syncCache()
    loads,        \* history: the load() calls of each Job that resolved
    hooks,        \* history: the extension points each Job's load() invoked
    probe,        \* history: what storage held when hasCache / the full fetch ran
    normIn,       \* normalizer: the raw input
    normFn,       \* normalizer: which of the two functions is applied
    normOut,      \* normalizer: the successive outputs
    models,       \* the models registered on each Database's connection
    main,         \* where each caller's Main is
    missing,      \* history: the models each Main's operations used unregistered
    syncs         \* the syncCache() calls of each Job that may overlap, with their history

pmVars == <<processList, jobList, call, returned, instanceOf, inserts>>
logVars == <<logs, lret, dialect>>
storeVars == <<processes, jobs, cache, now>>
machineVars == <<machine, mret>>
jobVars == <<thisProcessName, thisJobName, syncs, thisProcess, thisProcessJob, cacheResults, cacheTree,
             jpc, loads, hooks, probe>>
normVars == <<normIn, normFn, normOut>>
setupVars == <<models, main, missing>>
vars == <<processes, jobs, cache, now, processList, jobList, call, returned,
          instanceOf, inserts, logs, lret, dialect,
          machine, mret, thisProcessName, thisJobName, syncs, thisProcess, thisProcessJob,
          cacheResults, cacheTree, jpc, loads, hooks, probe,
          normIn, normFn, normOut, models, main, missing>>

\* the normalizer's variables when no normalization is under way
NormIdle == /\ normIn = <<>>
            /\ normFn = "process"
            /\ normOut = <<>>

(***************************************************************************)
(* Storage: the four Sequelize models, reduced to the columns the code     *)
(* reads.  A row of processes is [id, name, createdAt], a row of           *)
(* process_jobs [id, process, name, createdAt], a row of process_cache     *)
(* [id, process, job, machine, key, value, createdAt].                     *)
(***************************************************************************)
NullProcess == [id |-> 0, name |-> <<>>, createdAt |-> 0]
NullJob == [id |-> 0, process |-> 0, name |-> <<>>, createdAt |-> 0]
EmptyMap == [x \in {} |-> x]

\* autoIncrement primary key
NextId(rows) == IF rows = {} THEN 1 ELSE 1 + CHOOSE n \in {r.id : r \in rows} : \A r \in rows : r.id <= n

\* ProcessModel.findOne({ where: { name } })
FindOneProcess(rows, name) ==
    IF \E r \in rows : r.name = name
    THEN CHOOSE r \in rows : r.name = name
    ELSE NullProcess

\* ProcessJobModel.findOne({ where: { process, name } })
FindOneJobAnyProcess(rows, pid, name) ==
    IF \E r \in rows : r.name = name
    THEN CHOOSE r \in rows : r.name = name
    ELSE NullJob

FindOneJob(rows, pid, name) ==
    IF \E r \in rows : r.process = pid /\ r.name = name
    THEN CHOOSE r \in rows : r.process = pid /\ r.name = name
    ELSE NullJob

\* a slip: the table is declared without its unique index
NoProcessConstraint(rows, name) == FALSE

\* indexes: [{ unique: true, fields: ['name'] }]
ProcessUniqueViolation(rows, name) == \E r \in rows : r.name = name

\* indexes: [{ unique: true, fields: ['process', 'name'] }, ...]
JobUniqueViolation(rows, pid, name) == \E r \in rows : r.process = pid /\ r.name = name

(***************************************************************************)
(* ProcessManager: the in-memory index                                     *)
(***************************************************************************)
\* the name under which createProcess looks up and inserts
CreateProcessNameRaw(processName) == processName

\* a slip: createProcess only trims the name
CreateProcessNameTrimmed(processName) == Trim(processName)

CreateProcessName(processName) == formatProcessName(processName)

CreateJobName(jobName) == formatJobName(jobName)

\* a slip: the lookup also takes the "if (... === null) create" branch
CreatesWhenAbsentAlways(op) == TRUE

\* the "if (process === null)" / "if (processJob === null)" branch exists in
\* createProcess and createJob only; getProcess and getJob resolve null
CreatesWhenAbsent(op) == op \in {"createProcess", "createJob"}

\* a slip: cacheProcess opens the job map of the process and does not store
\* the process
cacheProcessJobListOnly(idx, process) ==
    [processList |-> idx.processList,
     jobList |-> IF process.name \in DOMAIN idx.jobList
                 THEN idx.jobList
                 ELSE (process.name :> EmptyMap) @@ idx.jobList]

\* cacheProcess on an index [processList, jobList]; the field caches is a
\* placeholder the code never reads and is left out
cacheProcess(idx, process) ==
    [processList |-> IF process.name \in DOMAIN idx.processList
                     THEN idx.processList
                     ELSE (process.name :> process) @@ idx.processList,
     jobList |-> IF process.name \in DOMAIN idx.jobList
                 THEN idx.jobList
                 ELSE (process.name :> EmptyMap) @@ idx.jobList]

\* a slip: the job is filed under every process of the index
cacheJobUnderEveryProcess(idx, process, job) ==
    LET i1 == cacheProcess(idx, process)
    IN  [i1 EXCEPT !.jobList = [pn \in DOMAIN i1.jobList |-> (job.name :> job) @@ i1.jobList[pn]]]

cacheJob(idx, process, job) ==
    LET i1 == cacheProcess(idx, process)
    IN  [i1 EXCEPT !.jobList[process.name] = (job.name :> job) @@ @]

\* the index of the instance that call slot s belongs to
Index(s) == [processList |-> processList[instanceOf[s]], jobList |-> jobList[instanceOf[s]]]

\* a slip: the index is never written
SetIndexDropped(s, idx) == UNCHANGED <<processList, jobList>>

SetIndex(s, idx) ==
    /\ processList' = [processList EXCEPT ![instanceOf[s]] = idx.processList]
    /\ jobList' = [jobList EXCEPT ![instanceOf[s]] = idx.jobList]

(***************************************************************************)
(* ProcessManager: calls.  call[s] is the call in flight on instance s:    *)
(*   pc   "idle"       no call was made yet                                *)
(*        "findOne"    suspended at await ProcessModel.findOne             *)
(*        "create"     suspended at await ProcessModel.create              *)
(*        "findOneJob" suspended at await ProcessJobModel.findOne          *)
(*        "createJob"  suspended at await ProcessJobModel.create           *)
(*        "resolved"   resolve(...) was called: the caller has the result  *)
(*        "pending"    the executor has ended without calling resolve, or  *)
(*                     has thrown: the promise stays pending for ever      *)
(*   err  TRUE when a storage call of this call failed                     *)
(***************************************************************************)
IdleCall == [pc |-> "idle", op |-> "none", arg |-> <<>>, name |-> <<>>,
             process |-> NullProcess, result |-> NullProcess, err |-> FALSE, n |-> 0]

CanCall(s) == call[s].pc \in {"idle", "resolved", "pending"}

NewCall(s, op, arg, name, process) ==
    [pc |-> "idle", op |-> op, arg |-> arg, name |-> name, process |-> process,
     result |-> NullProcess, err |-> FALSE, n |-> call[s].n + 1]

\* resolve(result): the call is over and the caller observes result
Resolve(s, c, result) ==
    /\ call' = [call EXCEPT ![s] = [c EXCEPT !.pc = "resolved", !.result = result]]
    /\ returned' = [returned EXCEPT ![s] =
                       Append(@, [op |-> c.op, arg |-> c.arg, process |-> c.process.id,
                                  id |-> result.id, name |-> result.name])]

\* the create() call that the call in slot s issues to a table
InsertOf(s, table) ==
    [instance |-> instanceOf[s], table |-> table, process |-> call[s].process.id,
     name |-> call[s].name]

\* the history of issued create() calls after one more call e
Issued(history, e) ==
    IF e \in DOMAIN history
    THEN [history EXCEPT ![e] = @ + 1]
    ELSE (e :> 1) @@ history

\* the body of getProcess up to its first await, entered by getProcess itself
\* or by createProcess (whose await of a resolved promise resumes at once)
GetProcessBody(s, c) ==
    /\ IF c.name \in DOMAIN Index(s).processList
       THEN /\ Resolve(s, c, Index(s).processList[c.name])
            /\ UNCHANGED <<processList, jobList>>
       ELSE /\ call' = [call EXCEPT ![s] = [c EXCEPT !.pc = "findOne"]]
            /\ UNCHANGED <<processList, jobList, returned>>
    /\ UNCHANGED <<instanceOf, inserts>>

\* getProcess as the earlier version of the class had it: the lookup
\* normalizes the name
GetProcessNormalizing(s, processName) ==
    /\ CanCall(s)
    /\ GetProcessBody(s, NewCall(s, "getProcess", processName,
                                 formatProcessName(processName), NullProcess))
    /\ UNCHANGED storeVars

\* getProcess(processName): the lookup is by the string as given
GetProcess(s, processName) ==
    /\ CanCall(s)
    /\ GetProcessBody(s, NewCall(s, "getProcess", processName, processName, NullProcess))
    /\ UNCHANGED storeVars

\* createProcess(processName) up to the await inside getProcess
CreateProcess(s, processName) ==
    /\ CanCall(s)
    /\ GetProcessBody(s, NewCall(s, "createProcess", processName,
                                 CreateProcessName(processName), NullProcess))
    /\ UNCHANGED storeVars

\* ProcessModel.findOne answers.  A row was found: getProcess indexes it and
\* ends without calling resolve.  No row: getProcess resolves null; a
\* createProcess goes on to ProcessModel.create.
FindOneProcessDone(s) ==
    /\ call[s].pc = "findOne"
    /\ LET process == FindOneProcess(processes, call[s].name)
       IN  IF process # NullProcess
           THEN /\ SetIndex(s, cacheProcess(Index(s), process))
                /\ call' = [call EXCEPT ![s].pc = "pending"]
                /\ UNCHANGED returned
           ELSE IF ~CreatesWhenAbsent(call[s].op)
                THEN /\ Resolve(s, call[s], NullProcess)
                     /\ UNCHANGED <<processList, jobList>>
                ELSE /\ call' = [call EXCEPT ![s].pc = "create"]
                     /\ UNCHANGED <<processList, jobList, returned>>
    /\ inserts' = IF call'[s].pc = "create"
                  THEN Issued(inserts, InsertOf(s, "processes"))
                  ELSE inserts
    /\ UNCHANGED <<storeVars, instanceOf>>

\* ProcessModel.create answers: the row is inserted, indexed and returned; a
\* violation of the unique index on name rejects inside the executor, which
\* leaves the promise pending
CreateProcessDone(s) ==
    /\ call[s].pc = "create"
    /\ IF ProcessUniqueViolation(processes, call[s].name)
       THEN /\ call' = [call EXCEPT ![s].pc = "pending", ![s].err = TRUE]
            /\ UNCHANGED <<processes, processList, jobList, returned>>
       ELSE LET process == [id |-> NextId(processes), name |-> call[s].name, createdAt |-> now]
            IN  /\ processes' = processes \cup {process}
                /\ SetIndex(s, cacheProcess(Index(s), process))
                /\ Resolve(s, call[s], process)
    /\ UNCHANGED <<jobs, cache, now, instanceOf, inserts>>

\* a slip: getJob does not look into the index and always asks storage
GetJobBodySkipsIndex(s, c) ==
    LET idx == cacheProcess(Index(s), c.process)
    IN  /\ SetIndex(s, idx)
        /\ call' = [call EXCEPT ![s] = [c EXCEPT !.pc = "findOneJob"]]
        /\ UNCHANGED <<returned, instanceOf, inserts>>

\* the body of getJob up to its first await
GetJobBody(s, c) ==
    LET idx == cacheProcess(Index(s), c.process)
    IN  /\ SetIndex(s, idx)
        /\ IF c.name \in DOMAIN idx.jobList[c.process.name]
           THEN Resolve(s, c, idx.jobList[c.process.name][c.name])
           ELSE /\ call' = [call EXCEPT ![s] = [c EXCEPT !.pc = "findOneJob"]]
                /\ UNCHANGED returned
        /\ UNCHANGED <<instanceOf, inserts>>

\* getJob(process, jobName)
GetJob(s, process, jobName) ==
    /\ CanCall(s)
    /\ GetJobBody(s, NewCall(s, "getJob", jobName, jobName, process))
    /\ UNCHANGED storeVars

\* createJob(process, jobName) up to the await inside getJob
CreateJob(s, process, jobName) ==
    /\ CanCall(s)
    /\ GetJobBody(s, NewCall(s, "createJob", jobName, CreateJobName(jobName), process))
    /\ UNCHANGED storeVars

\* a slip: getJob ends like getProcess, without resolve when the row is found
FindOneJobDoneNoResolve(s) ==
    /\ call[s].pc = "findOneJob"
    /\ LET job == FindOneJob(jobs, call[s].process.id, call[s].name)
       IN  IF job # NullJob
           THEN /\ SetIndex(s, cacheJob(Index(s), call[s].process, job))
                /\ call' = [call EXCEPT ![s].pc = "pending"]
                /\ UNCHANGED returned
           ELSE IF ~CreatesWhenAbsent(call[s].op)
                THEN /\ Resolve(s, call[s], NullJob)
                     /\ UNCHANGED <<processList, jobList>>
                ELSE /\ call' = [call EXCEPT ![s].pc = "createJob"]
                     /\ UNCHANGED <<processList, jobList, returned>>
    /\ inserts' = IF call'[s].pc = "createJob"
                  THEN Issued(inserts, InsertOf(s, "process_jobs"))
                  ELSE inserts
    /\ UNCHANGED <<storeVars, instanceOf>>

\* ProcessJobModel.findOne answers: getJob indexes a found row and resolves
\* with the row or null; a createJob that got null goes on to create
FindOneJobDone(s) ==
    /\ call[s].pc = "findOneJob"
    /\ LET job == FindOneJob(jobs, call[s].process.id, call[s].name)
       IN  IF job # NullJob
           THEN /\ SetIndex(s, cacheJob(Index(s), call[s].process, job))
                /\ Resolve(s, call[s], job)
           ELSE IF ~CreatesWhenAbsent(call[s].op)
                THEN /\ Resolve(s, call[s], NullJob)
                     /\ UNCHANGED <<processList, jobList>>
                ELSE /\ call' = [call EXCEPT ![s].pc = "createJob"]
                     /\ UNCHANGED <<processList, jobList, returned>>
    /\ inserts' = IF call'[s].pc = "createJob"
                  THEN Issued(inserts, InsertOf(s, "process_jobs"))
                  ELSE inserts
    /\ UNCHANGED <<storeVars, instanceOf>>

\* ProcessJobModel.create answers
CreateJobDone(s) ==
    /\ call[s].pc = "createJob"
    /\ IF JobUniqueViolation(jobs, call[s].process.id, call[s].name)
       THEN /\ call' = [call EXCEPT ![s].pc = "pending", ![s].err = TRUE]
            /\ UNCHANGED <<jobs, processList, jobList, returned>>
       ELSE LET job == [id |-> NextId(jobs), process |-> call[s].process.id,
                        name |-> call[s].name, createdAt |-> now]
            IN  /\ jobs' = jobs \cup {job}
                /\ SetIndex(s, cacheJob(Index(s), call[s].process, job))
                /\ Resolve(s, call[s], job)
    /\ UNCHANGED <<processes, cache, now, instanceOf, inserts>>

\* a second of wall-clock time passes
Tick ==
    /\ now < MaxTime
    /\ now' = now + 1
    /\ UNCHANGED <<processes, jobs, cache, pmVars, machineVars, jobVars, normVars, logVars, setupVars>>

(***************************************************************************)
(* Machine: cache rows scoped to (process, job, machine).  Each method     *)
(* makes one storage call and resolves with its answer, so a method is one *)
(* action, taken when storage executes the call.  mret is the call that    *)
(* completed last: pc "resolved" with the value returned, or pc "pending"  *)
(* when the executor threw and the promise can never settle.               *)
(***************************************************************************)
MachineNames == {"m1", "m2"}
MachineNameOf(s) == IF s = 1 THEN "m1" ELSE "m2"

NoMachineCall == [s |-> 0, op |-> "none", pc |-> "idle", process |-> 0, job |-> 0,
                  key |-> "", value |-> "", rows |-> <<>>, flag |-> FALSE]

MachineCall(s, op, process, job, key, value) ==
    [s |-> s, op |-> op, pc |-> "resolved", process |-> process.id, job |-> job.id,
     key |-> key, value |-> value, rows |-> <<>>, flag |-> FALSE]

\* where: { process: process.id, job: job.id, machine: this.machine, key: key }
CacheKeyWhereAnyMachine(r, process, job, mach, key) ==
    r.process = process.id /\ r.job = job.id /\ r.key = key

CacheKeyWhere(r, process, job, mach, key) ==
    r.process = process.id /\ r.job = job.id /\ r.machine = mach /\ r.key = key

\* where: { process: process.id, job: job.id, machine: this.machine }
CacheWhereAnyMachine(r, process, job, mach) ==
    r.process = process.id /\ r.job = job.id

CacheWhere(r, process, job, mach) ==
    r.process = process.id /\ r.job = job.id /\ r.machine = mach

\* the sequences that list every row of a finite set once
RECURSIVE Orderings(_)
Orderings(rows) ==
    IF rows = {} THEN {<<>>}
    ELSE UNION {{<<r>> \o rest : rest \in Orderings(rows \ {r})} : r \in rows}

\* findAll({ order: [['createdAt', 'ASC']] }): the rows by ascending createdAt;
\* the order of rows with the same createdAt is whatever the database gives
FindAllAscending(rows) ==
    {seq \in Orderings(rows) :
        \A i, j \in 1..Len(seq) : i < j => seq[i].createdAt <= seq[j].createdAt}

\* reading process.id or job.id of a null model throws inside the executor
NullArgs(process, job) == process.id = 0 \/ job.id = 0

Throws(s, op, process, job, key, value) ==
    /\ mret' = [MachineCall(s, op, process, job, key, value) EXCEPT !.pc = "pending"]
    /\ UNCHANGED storeVars

\* a slip: createCache replaces the entries stored under the key (an upsert)
MachineCreateCacheUpsert(s, process, job, key, value) ==
    IF NullArgs(process, job)
    THEN Throws(s, "createCache", process, job, key, value)
    ELSE /\ cache' = {r \in cache : ~CacheKeyWhere(r, process, job, machine[s], key)}
                      \cup {[id |-> NextId(cache), process |-> process.id, job |-> job.id,
                              machine |-> machine[s], key |-> key, value |-> value,
                              createdAt |-> now]}
         /\ mret' = MachineCall(s, "createCache", process, job, key, value)
         /\ UNCHANGED <<processes, jobs, now>>

\* a slip: createCache keeps one entry per (process, job, machine): the new
\* entry replaces what was stored
MachineCreateCacheSingleSlot(s, process, job, key, value) ==
    IF NullArgs(process, job)
    THEN Throws(s, "createCache", process, job, key, value)
    ELSE /\ cache' = {r \in cache : ~CacheWhere(r, process, job, machine[s])}
                      \cup {[id |-> NextId(cache), process |-> process.id, job |-> job.id,
                              machine |-> machine[s], key |-> key, value |-> value,
                              createdAt |-> now]}
         /\ mret' = MachineCall(s, "createCache", process, job, key, value)
         /\ UNCHANGED <<processes, jobs, now>>

\* a slip: createCache leaves the machine column to its default
MachineCreateCacheDefaultMachine(s, process, job, key, value) ==
    IF NullArgs(process, job)
    THEN Throws(s, "createCache", process, job, key, value)
    ELSE /\ cache' = cache \cup {[id |-> NextId(cache), process |-> process.id, job |-> job.id,
                                  machine |-> "unknown", key |-> key, value |-> value,
                                  createdAt |-> now]}
         /\ mret' = MachineCall(s, "createCache", process, job, key, value)
         /\ UNCHANGED <<processes, jobs, now>>

\* Machine.createCache(process, job, key, value)
MachineCreateCache(s, process, job, key, value) ==
    IF NullArgs(process, job)
    THEN Throws(s, "createCache", process, job, key, value)
    ELSE /\ cache' = cache \cup {[id |-> NextId(cache), process |-> process.id, job |-> job.id,
                                  machine |-> machine[s], key |-> key, value |-> value,
                                  createdAt |-> now]}
         /\ mret' = MachineCall(s, "createCache", process, job, key, value)
         /\ UNCHANGED <<processes, jobs, now>>

\* a slip: the where clause of getCache has no machine
MachineGetCacheUnscoped(s, process, job, key) ==
    IF NullArgs(process, job)
    THEN Throws(s, "getCache", process, job, key, "")
    ELSE /\ \E results \in FindAllAscending({r \in cache : CacheKeyWhereAnyMachine(r, process, job, machine[s], key)}) :
                mret' = [MachineCall(s, "getCache", process, job, key, "") EXCEPT !.rows = results]
         /\ UNCHANGED storeVars

\* Machine.getCache(process, job, key)
MachineGetCache(s, process, job, key) ==
    IF NullArgs(process, job)
    THEN Throws(s, "getCache", process, job, key, "")
    ELSE /\ \E results \in FindAllAscending({r \in cache : CacheKeyWhere(r, process, job, machine[s], key)}) :
                mret' = [MachineCall(s, "getCache", process, job, key, "") EXCEPT !.rows = results]
         /\ UNCHANGED storeVars

\* Machine.hasCacheKey(process, job, key)
MachineHasCacheKey(s, process, job, key) ==
    IF NullArgs(process, job)
    THEN Throws(s, "hasCacheKey", process, job, key, "")
    ELSE LET foundResult == Cardinality({r \in cache : CacheKeyWhere(r, process, job, machine[s], key)})
         IN  /\ mret' = [MachineCall(s, "hasCacheKey", process, job, key, "")
                            EXCEPT !.flag = (foundResult > 0)]
             /\ UNCHANGED storeVars

\* Machine.hasCache(process, job)
MachineHasCache(s, process, job) ==
    IF NullArgs(process, job)
    THEN Throws(s, "hasCache", process, job, "", "")
    ELSE LET foundResult == Cardinality({r \in cache : CacheWhere(r, process, job, machine[s])})
         IN  /\ mret' = [MachineCall(s, "hasCache", process, job, "", "")
                            EXCEPT !.flag = (foundResult > 0)]
             /\ UNCHANGED storeVars

\* Machine.getFullCache(process, job): every cache row of (process, job,
\* this machine), by ascending createdAt
MachineGetFullCache(s, process, job) ==
    FindAllAscending({r \in cache : CacheWhere(r, process, job, machine[s])})

(***************************************************************************)
(* Machine: log rows scoped to (process, job, machine).  A row of          *)
(* process_job_logs is [id, process, job, machine, type, message,          *)
(* createdAt].  An optional field of the filters is a set with at most one *)
(* element: empty when the field is undefined.  lret is the log call that  *)
(* completed last, as mret is for the cache calls.                         *)
(***************************************************************************)
\* enum ProcessLogTypes
ProcessLogTypes == {"GENERIC", "WARNING", "ERROR"}

MACHINE_JOB_LOG_FILTERS_DEFAULT == [type |-> {}, offset |-> {}, limit |-> {}]

Dialects == {"mysql", "postgres"}

LogCall(s, op, process, job, filters) ==
    [s |-> s, op |-> op, pc |-> "resolved", process |-> process, job |-> job,
     filters |-> filters, rows |-> <<>>]

\* the operand of Op.in: [filters.type] is a list of one type, while
\* [Object.values(ProcessLogTypes)] is a list of one element that is itself
\* the array of the three types
TypeOperand(filters) ==
    IF filters.type # {}
    THEN [nested |-> FALSE, types |-> filters.type]
    ELSE [nested |-> TRUE, types |-> ProcessLogTypes]

\* what the query with this operand selects.  A flat list is "type IN (...)"
\* in every dialect.  The nested array is written out as the plain list of its
\* elements for mysql, and as one ARRAY[...] value for postgres, which has no
\* comparison of a string column with an array: the query fails.
TypeIn(d, operand) ==
    IF operand.nested /\ d = "postgres"
    THEN [fails |-> TRUE, types |-> {}]
    ELSE [fails |-> FALSE, types |-> operand.types]

TheOne(set) == CHOOSE x \in set : TRUE

\* a slip: the offset is dropped and the limit counts from the first row
PaginateNoOffset(ordered, filters) ==
    IF filters.limit = {} THEN ordered
    ELSE SubSeq(ordered, 1, IF TheOne(filters.limit) < Len(ordered)
                            THEN TheOne(filters.limit) ELSE Len(ordered))

\* limit: filters.limit, offset: filters.offset
Paginate(ordered, filters) ==
    LET first == IF filters.offset = {} THEN 1 ELSE TheOne(filters.offset) + 1
        count == IF filters.limit = {} THEN Len(ordered) ELSE TheOne(filters.limit)
        last == IF first + count - 1 < Len(ordered) THEN first + count - 1 ELSE Len(ordered)
    IN  IF first > last THEN <<>> ELSE SubSeq(ordered, first, last)

\* the findAll of getProcessLogs / getJobLogs over the rows the where clause
\* selects apart from the type
FindAllLogs(s, op, process, job, selected, filters) ==
    LET query == TypeIn(dialect, TypeOperand(filters))
    IN  /\ IF query.fails
           THEN lret' = [LogCall(s, op, process, job, filters) EXCEPT !.pc = "pending"]
           ELSE \E ordered \in FindAllAscending({r \in selected : r.type \in query.types}) :
                   lret' = [LogCall(s, op, process, job, filters)
                               EXCEPT !.rows = Paginate(ordered, filters)]
        /\ UNCHANGED <<logs, dialect>>

\* Machine.getProcessLogs(process, filters)
MachineGetProcessLogs(s, process, filters) ==
    FindAllLogs(s, "getProcessLogs", process.id, 0,
                {r \in logs : r.process = process.id /\ r.machine = machine[s]}, filters)

\* Machine.getJobLogs(job, filters)
MachineGetJobLogs(s, job, filters) ==
    FindAllLogs(s, "getJobLogs", job.process, job.id,
                {r \in logs : r.process = job.process /\ r.job = job.id /\ r.machine = machine[s]},
                filters)

\* Machine.createLog(process, job, message, logType)
MachineCreateLog(s, process, job, message, logType) ==
    /\ IF NullArgs(process, job)
       THEN /\ lret' = [LogCall(s, "createLog", process.id, job.id, MACHINE_JOB_LOG_FILTERS_DEFAULT)
                           EXCEPT !.pc = "pending"]
            /\ UNCHANGED logs
       ELSE /\ logs' = logs \cup {[id |-> NextId(logs), process |-> process.id, job |-> job.id,
                                   type |-> logType, machine |-> machine[s],
                                   message |-> message, createdAt |-> now]}
            /\ lret' = LogCall(s, "createLog", process.id, job.id, MACHINE_JOB_LOG_FILTERS_DEFAULT)
    /\ UNCHANGED dialect

(***************************************************************************)
(* Job: the facade.  jpc[s] is where the Job is:                           *)
(*   "new"           constructed, load() not called                        *)
(*   "createProcess" load() awaits processManager.createProcess            *)
(*   "createJob"     load() awaits processManager.createJob                *)
(*   "hasCache"      load() awaits this.hasCache()                         *)
(*   "syncCache"     load() awaits this.syncCache(), itself at its fetch   *)
(*   "loaded"        load() has resolved                                   *)
(*   "sync"          a syncCache() called after load awaits its fetch      *)
(***************************************************************************)
NoViews == [cacheResults |-> EmptyMap, cacheTree |-> EmptyMap]

\* a slip in the loop of syncCache: the key's subtree is created afresh for
\* every row, so that only the last row of a key stays in the tree
RECURSIVE SyncCacheLoopResetsKey(_, _, _)
SyncCacheLoopResetsKey(resultCache, i, views) ==
    IF i > Len(resultCache) THEN views
    ELSE LET r == resultCache[i]
             tree == (r.key :> (r.id :> r)) @@ views.cacheTree
         IN  SyncCacheLoopResetsKey(resultCache, i + 1,
                 [cacheResults |-> (r.id :> r) @@ views.cacheResults, cacheTree |-> tree])

\* a slip: the loop of syncCache fills cacheTree and leaves cacheResults
RECURSIVE SyncCacheLoopTreeOnly(_, _, _)
SyncCacheLoopTreeOnly(resultCache, i, views) ==
    IF i > Len(resultCache) THEN views
    ELSE LET r == resultCache[i]
             tree1 == IF r.key \in DOMAIN views.cacheTree
                      THEN views.cacheTree
                      ELSE (r.key :> EmptyMap) @@ views.cacheTree
             tree2 == [tree1 EXCEPT ![r.key] = (r.id :> r) @@ @]
         IN  SyncCacheLoopTreeOnly(resultCache, i + 1,
                 [cacheResults |-> views.cacheResults, cacheTree |-> tree2])

\* a slip: the loop of syncCache is not run, the views stay as cleared
SyncCacheLoopSkipped(resultCache, i, views) == views

\* the for loop of syncCache from index i on, over the views as they are
RECURSIVE SyncCacheLoop(_, _, _)
SyncCacheLoop(resultCache, i, views) ==
    IF i > Len(resultCache) THEN views
    ELSE LET r == resultCache[i]
             tree1 == IF r.key \in DOMAIN views.cacheTree
                      THEN views.cacheTree
                      ELSE (r.key :> EmptyMap) @@ views.cacheTree
             tree2 == [tree1 EXCEPT ![r.key] = (r.id :> r) @@ @]
         IN  SyncCacheLoop(resultCache, i + 1,
                 [cacheResults |-> (r.id :> r) @@ views.cacheResults, cacheTree |-> tree2])

Views(s) == [cacheResults |-> cacheResults[s], cacheTree |-> cacheTree[s]]

SetViews(s, views) ==
    /\ cacheResults' = [cacheResults EXCEPT ![s] = views.cacheResults]
    /\ cacheTree' = [cacheTree EXCEPT ![s] = views.cacheTree]

\* the rows of this Job's (process, job, machine) in storage
OwnCacheRows(s) ==
    {r \in cache : /\ r.process = thisProcess[s].id
                   /\ r.job = thisProcessJob[s].id
                   /\ r.machine = machine[s]}

\* a slip in load(): the branches of "if (hasCache)" are exchanged
LoadBranchInverted(hasCache) == ~hasCache

\* load(): "if (hasCache)" takes the syncCache / onCacheExist branch
LoadBranch(hasCache) == hasCache

\* load() up to the await inside createProcess
JobLoad(s) ==
    /\ jpc[s] \in {"new", "loaded"}
    /\ CanCall(s)
    /\ GetProcessBody(s, NewCall(s, "createProcess", thisProcessName[s],
                                 CreateProcessName(thisProcessName[s]), NullProcess))
    /\ jpc' = [jpc EXCEPT ![s] = "createProcess"]
    /\ loads' = [loads EXCEPT ![s].started = @ + 1]
    /\ UNCHANGED <<storeVars, machineVars, thisProcessName, thisJobName, syncs, thisProcess, thisProcessJob,
                   cacheResults, cacheTree, hooks, probe>>

\* createProcess has resolved: this.process is set and createJob runs up to
\* the await inside getJob
LoadProcessResolved(s) ==
    /\ jpc[s] = "createProcess"
    /\ call[s].pc = "resolved" /\ call[s].op = "createProcess"
    /\ thisProcess' = [thisProcess EXCEPT ![s] = call[s].result]
    /\ GetJobBody(s, NewCall(s, "createJob", thisJobName[s], CreateJobName(thisJobName[s]),
                             call[s].result))
    /\ jpc' = [jpc EXCEPT ![s] = "createJob"]
    /\ UNCHANGED <<storeVars, machineVars, thisProcessName, thisJobName, syncs, thisProcessJob,
                   cacheResults, cacheTree, loads, hooks, probe>>

\* createJob has resolved: this.processJob is set and hasCache() is awaited
LoadJobResolved(s) ==
    /\ jpc[s] = "createJob"
    /\ call[s].pc = "resolved" /\ call[s].op = "createJob"
    /\ thisProcessJob' = [thisProcessJob EXCEPT ![s] = call[s].result]
    /\ jpc' = [jpc EXCEPT ![s] = "hasCache"]
    /\ UNCHANGED <<storeVars, pmVars, machineVars, thisProcessName, thisJobName, syncs, thisProcess,
                   cacheResults, cacheTree, loads, hooks, probe>>

\* hasCache() answers.  With a cache, syncCache() clears both views and awaits
\* the full fetch; without, onCacheEmpty() is invoked and load() resolves.
LoadHasCacheDone(s) ==
    /\ jpc[s] = "hasCache"
    /\ MachineHasCache(s, thisProcess[s], thisProcessJob[s])
    /\ probe' = [probe EXCEPT ![s].existed = (OwnCacheRows(s) # {}),
                              ![s].probed = OwnCacheRows(s),
                              ![s].synced = (@ /\ OwnCacheRows(s) = {})]
    /\ IF LoadBranch(mret'.flag)
       THEN /\ SetViews(s, NoViews)
            /\ jpc' = [jpc EXCEPT ![s] = "syncCache"]
            /\ UNCHANGED <<loads, hooks>>
       ELSE /\ hooks' = [hooks EXCEPT ![s] = Append(@, [hook |-> "onCacheEmpty",
                                                         existed |-> probe'[s].existed])]
            /\ jpc' = [jpc EXCEPT ![s] = "loaded"]
            /\ loads' = [loads EXCEPT ![s].resolved = @ + 1]
            /\ UNCHANGED <<cacheResults, cacheTree>>
    /\ UNCHANGED <<pmVars, machine, thisProcessName, thisJobName, syncs, thisProcess, thisProcessJob>>

\* the fetch of load()'s syncCache() answers: the views are filled,
\* onCacheExist() is invoked and load() resolves
LoadSyncCacheDone(s) ==
    /\ jpc[s] = "syncCache"
    /\ \E resultCache \in MachineGetFullCache(s, thisProcess[s], thisProcessJob[s]) :
          /\ SetViews(s, SyncCacheLoop(resultCache, 1, Views(s)))
          /\ probe' = [probe EXCEPT ![s].fetched = {resultCache[i] : i \in 1..Len(resultCache)},
                                    ![s].stored = OwnCacheRows(s),
                                    ![s].synced = TRUE]
    /\ hooks' = [hooks EXCEPT ![s] = Append(@, [hook |-> "onCacheExist",
                                                 existed |-> probe[s].existed])]
    /\ jpc' = [jpc EXCEPT ![s] = "loaded"]
    /\ loads' = [loads EXCEPT ![s].resolved = @ + 1]
    /\ UNCHANGED <<storeVars, pmVars, machineVars, thisProcessName, thisJobName, syncs, thisProcess,
                   thisProcessJob>>

\* syncCache() called by the subclass after load(): both views are cleared
\* and the full fetch is awaited
SyncCache(s) ==
    /\ jpc[s] = "loaded"
    /\ SetViews(s, NoViews)
    /\ jpc' = [jpc EXCEPT ![s] = "sync"]
    /\ probe' = [probe EXCEPT ![s].synced = FALSE]
    /\ UNCHANGED <<storeVars, pmVars, machineVars, thisProcessName, thisJobName, syncs, thisProcess,
                   thisProcessJob, loads, hooks>>

\* the fetch answers and the loop fills the views
SyncCacheDone(s) ==
    /\ jpc[s] = "sync"
    /\ \E resultCache \in MachineGetFullCache(s, thisProcess[s], thisProcessJob[s]) :
          /\ SetViews(s, SyncCacheLoop(resultCache, 1, Views(s)))
          /\ probe' = [probe EXCEPT ![s].fetched = {resultCache[i] : i \in 1..Len(resultCache)},
                                    ![s].stored = OwnCacheRows(s),
                                    ![s].synced = TRUE]
    /\ jpc' = [jpc EXCEPT ![s] = "loaded"]
    /\ UNCHANGED <<storeVars, pmVars, machineVars, thisProcessName, thisJobName, syncs, thisProcess,
                   thisProcessJob, loads, hooks>>

\* syncCache() calls that may overlap.  syncs[s].flight holds the calls that
\* are suspended at "await this.getFullCache()": n is the number of the call,
\* fetched tells whether storage has answered the query, resultCache is the
\* answer.  The history fields: started counts the calls, lastBefore is what
\* storage held for the Job when the last call started, loaded is what the
\* completed calls have put into the views, overlapped tells whether a call
\* started while another was suspended.
RowsOfResult(resultCache) == {resultCache[i] : i \in 1..Len(resultCache)}

\* syncCache() up to its await: both views are cleared and the query is sent
SyncCacheCalled(s) ==
    /\ jpc[s] = "loaded"
    /\ SetViews(s, NoViews)
    /\ syncs' = [syncs EXCEPT ![s] =
                    [flight |-> syncs[s].flight \cup
                                   {[n |-> syncs[s].started + 1, fetched |-> FALSE,
                                     resultCache |-> <<>>]},
                     started |-> syncs[s].started + 1,
                     overlapped |-> (syncs[s].overlapped \/ syncs[s].flight # {}),
                     lastBefore |-> OwnCacheRows(s),
                     loaded |-> syncs[s].loaded]]
    /\ UNCHANGED <<storeVars, pmVars, machineVars, thisProcessName, thisJobName, thisProcess,
                   thisProcessJob, jpc, loads, hooks, probe>>

\* storage answers the query of the call f
SyncCacheFetched(s, f) ==
    /\ f \in syncs[s].flight
    /\ ~f.fetched
    /\ \E resultCache \in MachineGetFullCache(s, thisProcess[s], thisProcessJob[s]) :
          syncs' = [syncs EXCEPT ![s].flight =
                       (@ \ {f}) \cup {[f EXCEPT !.fetched = TRUE, !.resultCache = resultCache]}]
    /\ UNCHANGED <<storeVars, pmVars, machineVars, thisProcessName, thisJobName, thisProcess,
                   thisProcessJob, cacheResults, cacheTree, jpc, loads, hooks, probe>>

\* a slip: the views are cleared when the answer arrives, not before the await
SyncCacheResumedCleared(s, f) ==
    /\ f \in syncs[s].flight
    /\ f.fetched
    /\ SetViews(s, SyncCacheLoop(f.resultCache, 1, NoViews))
    /\ syncs' = [syncs EXCEPT ![s].flight = @ \ {f},
                              ![s].loaded = @ \cup RowsOfResult(f.resultCache)]
    /\ UNCHANGED <<storeVars, pmVars, machineVars, thisProcessName, thisJobName, thisProcess,
                   thisProcessJob, jpc, loads, hooks, probe>>

\* the call f resumes with the answer: the loop fills the views as they are
\* now, and the call resolves
SyncCacheResumed(s, f) ==
    /\ f \in syncs[s].flight
    /\ f.fetched
    /\ SetViews(s, SyncCacheLoop(f.resultCache, 1, Views(s)))
    /\ syncs' = [syncs EXCEPT ![s].flight = @ \ {f},
                              ![s].loaded = @ \cup RowsOfResult(f.resultCache)]
    /\ UNCHANGED <<storeVars, pmVars, machineVars, thisProcessName, thisJobName, thisProcess,
                   thisProcessJob, jpc, loads, hooks, probe>>

\* the wrappers of the facade: each hands this.process and this.processJob
\* to the Machine
JobFrame == UNCHANGED <<pmVars, machine, jobVars>>

JobCreateCache(s, key, value) ==
    MachineCreateCache(s, thisProcess[s], thisProcessJob[s], key, value) /\ JobFrame

JobGetCache(s, key) ==
    MachineGetCache(s, thisProcess[s], thisProcessJob[s], key) /\ JobFrame

JobHasCacheKey(s, key) ==
    MachineHasCacheKey(s, thisProcess[s], thisProcessJob[s], key) /\ JobFrame

JobHasCache(s) ==
    MachineHasCache(s, thisProcess[s], thisProcessJob[s]) /\ JobFrame

JobCreateLog(s, message, logType) ==
    /\ MachineCreateLog(s, thisProcess[s], thisProcessJob[s], message, logType)
    /\ UNCHANGED <<storeVars, mret>>
    /\ JobFrame

(***************************************************************************)
(* The parts of the state a specification leaves alone                     *)
(***************************************************************************)
PMIdle ==
    /\ processList = [s \in Sessions |-> EmptyMap]
    /\ jobList = [s \in Sessions |-> EmptyMap]
    /\ call = [s \in Sessions |-> IdleCall]
    /\ returned = [s \in Sessions |-> <<>>]
    /\ instanceOf = [s \in Sessions |-> s]
    /\ inserts = EmptyMap

NoLogCall == [s |-> 0, op |-> "none", pc |-> "idle", process |-> 0, job |-> 0,
              filters |-> MACHINE_JOB_LOG_FILTERS_DEFAULT, rows |-> <<>>]

\* no log was written or read, on the dialect of the documented setup
LogIdle ==
    /\ logs = {}
    /\ lret = NoLogCall
    /\ dialect = "mysql"

MachineIdle ==
    /\ machine = [s \in Sessions |-> MachineNameOf(s)]
    /\ mret = NoMachineCall

NoProbe == [existed |-> FALSE, probed |-> {}, fetched |-> {}, stored |-> {}, synced |-> FALSE]

\* no syncCache() was called
NoSyncs == [flight |-> {}, started |-> 0, overlapped |-> FALSE, lastBefore |-> {}, loaded |-> {}]

JobIdle ==
    /\ syncs = [s \in Sessions |-> NoSyncs]
    /\ thisProcessName = [s \in Sessions |-> <<>>]
    /\ thisJobName = [s \in Sessions |-> <<>>]
    /\ thisProcess = [s \in Sessions |-> NullProcess]
    /\ thisProcessJob = [s \in Sessions |-> NullJob]
    /\ cacheResults = [s \in Sessions |-> EmptyMap]
    /\ cacheTree = [s \in Sessions |-> EmptyMap]
    /\ jpc = [s \in Sessions |-> "new"]
    /\ loads = [s \in Sessions |-> [started |-> 0, resolved |-> 0]]
    /\ hooks = [s \in Sessions |-> <<>>]
    /\ probe = [s \in Sessions |-> NoProbe]

\* the four models that ProcessFactory, ProcessJobFactory, ProcessJobLogFactory
\* and ProcessCacheFactory register on a connection
ModelNames == {"Process", "ProcessJob", "ProcessJobLog", "ProcessCache"}

\* the caller has registered the models (ProcessManager.load) before the
\* operations of the specification start
SetupIdle ==
    /\ models = [s \in Sessions |-> ModelNames]
    /\ main = [s \in Sessions |-> "none"]
    /\ missing = [s \in Sessions |-> {}]

(***************************************************************************)
(* Spec: ProcessManager instances used directly, over a store that earlier *)
(* executions may have filled.                                             *)
(***************************************************************************)
RawProcessNames == {<<"F", "o">>, <<"f", "o">>, <<"b">>}
RawJobNames == {<<"J">>, <<"j">>}

StoredProcess == [id |-> 1, name |-> <<"f", "o">>, createdAt |-> 0]
OtherStoredProcess == [id |-> 2, name |-> <<"b">>, createdAt |-> 0]
StoredJob == [id |-> 1, process |-> 1, name |-> <<"j">>, createdAt |-> 0]

EarlierStores == {
    [processes |-> {}, jobs |-> {}],
    [processes |-> {StoredProcess}, jobs |-> {}],
    [processes |-> {StoredProcess}, jobs |-> {StoredJob}],
    [processes |-> {StoredProcess, OtherStoredProcess}, jobs |-> {StoredJob}]}

Init ==
    /\ \E st \in EarlierStores : processes = st.processes /\ jobs = st.jobs
    /\ cache = {}
    /\ now = 0
    /\ PMIdle
    /\ MachineIdle
    /\ JobIdle
    /\ NormIdle
    /\ SetupIdle
    /\ LogIdle

\* the ProcessManager instance the calls of Spec are made on: the first
Manager == CHOOSE s \in Sessions : s - 1 \notin Sessions

Budget == call[Manager].n < MaxCalls

PMFrame == UNCHANGED <<machineVars, jobVars, normVars, logVars, setupVars>>

Next ==
    \/ \E n \in RawProcessNames : Budget /\ GetProcess(Manager, n) /\ PMFrame
    \/ \E n \in RawProcessNames : Budget /\ CreateProcess(Manager, n) /\ PMFrame
    \/ FindOneProcessDone(Manager) /\ PMFrame
    \/ CreateProcessDone(Manager) /\ PMFrame
    \/ \E p \in processes, n \in RawJobNames : Budget /\ GetJob(Manager, p, n) /\ PMFrame
    \/ \E p \in processes, n \in RawJobNames : Budget /\ CreateJob(Manager, p, n) /\ PMFrame
    \/ FindOneJobDone(Manager) /\ PMFrame
    \/ CreateJobDone(Manager) /\ PMFrame

Spec == Init /\ [][Next]_vars

Returned == returned[Manager]

\* C1: two createProcess calls with the same raw name on one ProcessManager
\* return the same record id, and storage then holds exactly one process row
\* named by the normalized name.
C1_CreateProcessTwiceSameId ==
    \A i, j \in DOMAIN Returned :
        (/\ i < j
         /\ Returned[i].op = "createProcess"
         /\ Returned[j].op = "createProcess"
         /\ Returned[i].arg = Returned[j].arg)
        => /\ Returned[i].id = Returned[j].id
           /\ Returned[i].id # 0
           /\ Cardinality({r \in processes : r.name = formatProcessName(Returned[i].arg)}) = 1

\* createProcess("Fo") has returned twice in a row
C1_Witness ==
    \E i \in DOMAIN Returned :
        /\ i + 1 \in DOMAIN Returned
        /\ Returned[i].op = "createProcess" /\ Returned[i].arg = <<"F", "o">>
        /\ Returned[i + 1].op = "createProcess" /\ Returned[i + 1].arg = <<"F", "o">>

\* C2: a createProcess or getProcess call whose storage calls succeeded is
\* never left with a promise that can no longer settle (every such call
\* completes), in particular when the row is in storage and not in the index.
C2_ProcessCallCompletes ==
    (call[Manager].op \in {"createProcess", "getProcess"} /\ ~call[Manager].err)
        => call[Manager].pc # "pending"

\* C4: createJob with the same process and raw job name returns the same job
\* id and leaves exactly one job row for (process id, normalized name);
\* createJob with the same raw name under another process returns another row.
C4_CreateJobKey ==
    \A i, j \in DOMAIN Returned :
        (/\ i < j
         /\ Returned[i].op = "createJob"
         /\ Returned[j].op = "createJob"
         /\ Returned[i].arg = Returned[j].arg)
        => IF Returned[i].process = Returned[j].process
           THEN /\ Returned[i].id = Returned[j].id
                /\ Returned[i].id # 0
                /\ Cardinality({r \in jobs : /\ r.process = Returned[i].process
                                              /\ r.name = formatJobName(Returned[i].arg)}) = 1
           ELSE /\ Returned[i].id # Returned[j].id
                /\ \E r \in jobs : r.id = Returned[i].id /\ r.process = Returned[i].process
                /\ \E r \in jobs : r.id = Returned[j].id /\ r.process = Returned[j].process

\* createJob(p, "J") has returned twice and createJob(q, "J") once, p # q
C4_Witness ==
    \E i, j, k \in DOMAIN Returned :
        /\ i < j
        /\ \A x \in {i, j, k} : Returned[x].op = "createJob" /\ Returned[x].arg = <<"J">>
        /\ Returned[i].process = Returned[j].process
        /\ Returned[k].process # Returned[i].process

\* the rows a lookup call c can match
MatchingRow(c) ==
    IF c.op = "getProcess"
    THEN \E r \in processes : r.name = c.arg
    ELSE \E r \in jobs : r.process = c.process.id /\ r.name = c.arg

\* C5: no step of getProcess or getJob changes a storage table, and when no
\* matching row exists the call resolves with null.
C5_GetNeverCreates ==
    [][(call'[Manager].op \in {"getProcess", "getJob"} /\ call'[Manager] # call[Manager])
          => /\ UNCHANGED <<processes, jobs, cache>>
             /\ (call'[Manager].pc \in {"resolved", "pending"} /\ ~MatchingRow(call'[Manager]))
                   => (call'[Manager].pc = "resolved" /\ call'[Manager].result.id = 0)]_vars

\* getProcess and getJob have both returned null
C5_Witness ==
    \E i, j \in DOMAIN Returned :
        /\ Returned[i].op = "getProcess" /\ Returned[i].id = 0
        /\ Returned[j].op = "getJob" /\ Returned[j].id = 0

\* C23: two raw names with the same normalized form resolve to the same
\* process: createProcess(s) followed by createProcess(t) with normalize(s) =
\* normalize(t) returns the same record id and storage holds one row of that
\* normalized name.
C23_SameNormalizedSameProcess ==
    \A i, j \in DOMAIN Returned :
        (/\ i < j
         /\ Returned[i].op = "createProcess"
         /\ Returned[j].op = "createProcess"
         /\ Returned[i].arg # Returned[j].arg
         /\ formatProcessName(Returned[i].arg) = formatProcessName(Returned[j].arg))
        => /\ Returned[i].id = Returned[j].id
           /\ Returned[i].id # 0
           /\ Cardinality({r \in processes :
                              r.name = formatProcessName(Returned[i].arg)}) = 1

\* createProcess("Fo") and then createProcess("fo") have returned
C23_Witness ==
    \E i, j \in DOMAIN Returned :
        /\ i < j
        /\ Returned[i].op = "createProcess" /\ Returned[i].arg = <<"F", "o">>
        /\ Returned[j].op = "createProcess" /\ Returned[j].arg = <<"f", "o">>

\* a createProcess(raw) that has returned, raw not being in normalized form
CreatedFromRaw(raw) ==
    \E i \in DOMAIN Returned :
        /\ Returned[i].op = "createProcess" /\ Returned[i].arg = raw
        /\ formatProcessName(raw) # raw

\* C27: getProcess looks up the exact string and createProcess normalizes: for
\* a raw name s with normalize(s) # s, after createProcess(s) has returned,
\* getProcess(s) completes with null and getProcess(normalize(s)) completes
\* with the created record.
C27_GetProcessExactString ==
    /\ \A i, j \in DOMAIN Returned :
          (/\ i < j
           /\ Returned[i].op = "createProcess"
           /\ formatProcessName(Returned[i].arg) # Returned[i].arg
           /\ Returned[j].op = "getProcess")
          => /\ Returned[j].arg = Returned[i].arg => Returned[j].id = 0
             /\ Returned[j].arg = formatProcessName(Returned[i].arg)
                   => Returned[j].id = Returned[i].id /\ Returned[j].id # 0
    /\ (/\ call[Manager].op = "getProcess"
        /\ \E raw \in RawProcessNames :
              /\ CreatedFromRaw(raw)
              /\ call[Manager].arg \in {raw, formatProcessName(raw)})
          => call[Manager].pc # "pending"

\* after createProcess("Fo"), getProcess("Fo") has returned null and
\* getProcess("fo") the record
C27_Witness ==
    \E i, j, k \in DOMAIN Returned :
        /\ i < j /\ i < k
        /\ Returned[i].op = "createProcess" /\ Returned[i].arg = <<"F", "o">>
        /\ Returned[j].op = "getProcess" /\ Returned[j].arg = <<"F", "o">> /\ Returned[j].id = 0
        /\ Returned[k].op = "getProcess" /\ Returned[k].arg = <<"f", "o">>
        /\ Returned[k].id = Returned[i].id

\* C28: createJob(p, n) for a job row that is in storage and not in the index
\* completes with the existing row, inserts nothing and leaves the row indexed
\* under jobList[p.name][normalize(n)].
C28_CreateJobFindsStoredRow ==
    [][(/\ call[Manager].pc = "findOneJob"
        /\ call[Manager].op = "createJob"
        /\ call'[Manager] # call[Manager]
        /\ \E r \in jobs : r.process = call[Manager].process.id
                           /\ r.name = formatJobName(call[Manager].arg))
          => LET row == CHOOSE r \in jobs : /\ r.process = call[Manager].process.id
                                            /\ r.name = formatJobName(call[Manager].arg)
             IN  /\ call'[Manager].pc = "resolved"
                 /\ call'[Manager].result = row
                 /\ jobs' = jobs /\ inserts' = inserts
                 /\ call[Manager].process.name \in DOMAIN jobList'[Manager]
                 /\ formatJobName(call[Manager].arg)
                       \in DOMAIN jobList'[Manager][call[Manager].process.name]
                 /\ jobList'[Manager][call[Manager].process.name]
                            [formatJobName(call[Manager].arg)] = row]_vars

\* createJob(p, "J") has returned the job stored by an earlier execution, and
\* no insert was issued
C28_Witness ==
    /\ \E i \in DOMAIN Returned :
          /\ Returned[i].op = "createJob" /\ Returned[i].arg = <<"J">>
          /\ Returned[i].id = StoredJob.id /\ Returned[i].process = StoredJob.process
    /\ inserts = EmptyMap
    /\ StoredJob \in jobs

\* C32: the in-memory index is structurally closed in every reachable state:
\* a process name with a jobList entry has a processList entry, the record at
\* processList[n] has name n, and the job at jobList[pn][jn] has name jn and
\* the id of processList[pn] as its process.
C32_IndexStructurallyClosed ==
    \A m \in Sessions :
        /\ DOMAIN jobList[m] \subseteq DOMAIN processList[m]
        /\ \A n \in DOMAIN processList[m] : processList[m][n].name = n
        /\ \A pn \in DOMAIN jobList[m] \cap DOMAIN processList[m] :
              \A jn \in DOMAIN jobList[m][pn] :
                  /\ jobList[m][pn][jn].name = jn
                  /\ jobList[m][pn][jn].process = processList[m][pn].id

\* the index holds a process with a job and a process without one
C32_Witness ==
    \E pn, qn \in DOMAIN processList[Manager] :
        /\ pn # qn
        /\ pn \in DOMAIN jobList[Manager] /\ jobList[Manager][pn] # EmptyMap
        /\ qn \in DOMAIN jobList[Manager] /\ jobList[Manager][qn] = EmptyMap

(***************************************************************************)
(* SpecRace: ProcessManager calls that overlap.  Each call slot holds one  *)
(* call in flight; the slots belong either to independent ProcessManager   *)
(* instances over the one store, or all to the same instance.              *)
(***************************************************************************)
MaxRaceCalls == 4   \* calls issued in SpecRace, over all call slots

\* names are created by their raw form and looked up by the stored form
RaceCreateProcessNames == {<<"F", "o">>}
RaceGetProcessNames == {<<"f", "o">>}
RaceCreateJobNames == {<<"J">>}
RaceGetJobNames == {<<"j">>}

InitRace ==
    /\ processes = {OtherStoredProcess}
    /\ jobs = {}
    /\ cache = {}
    /\ now = 0
    /\ processList = [s \in Sessions |-> EmptyMap]
    /\ jobList = [s \in Sessions |-> EmptyMap]
    /\ call = [s \in Sessions |-> IdleCall]
    /\ returned = [s \in Sessions |-> <<>>]
    /\ instanceOf \in {[s \in Sessions |-> s], [s \in Sessions |-> Manager]}
    /\ inserts = EmptyMap
    /\ MachineIdle
    /\ JobIdle
    /\ NormIdle
    /\ SetupIdle
    /\ LogIdle

RECURSIVE CallsIssued(_)
CallsIssued(slots) ==
    IF slots = {} THEN 0
    ELSE LET s == CHOOSE x \in slots : TRUE
         IN  call[s].n + CallsIssued(slots \ {s})

RaceBudget(s) == CallsIssued(Sessions) < MaxRaceCalls

NextRace ==
    \/ \E s \in Sessions, n \in RaceGetProcessNames : RaceBudget(s) /\ GetProcess(s, n) /\ PMFrame
    \/ \E s \in Sessions, n \in RaceCreateProcessNames :
          RaceBudget(s) /\ CreateProcess(s, n) /\ PMFrame
    \/ \E s \in Sessions : FindOneProcessDone(s) /\ PMFrame
    \/ \E s \in Sessions : CreateProcessDone(s) /\ PMFrame
    \/ \E s \in Sessions, p \in processes, n \in RaceGetJobNames :
          RaceBudget(s) /\ GetJob(s, p, n) /\ PMFrame
    \/ \E s \in Sessions, p \in processes, n \in RaceCreateJobNames :
          RaceBudget(s) /\ CreateJob(s, p, n) /\ PMFrame
    \/ \E s \in Sessions : FindOneJobDone(s) /\ PMFrame
    \/ \E s \in Sessions : CreateJobDone(s) /\ PMFrame

SpecRace == InitRace /\ [][NextRace]_vars

\* C12: when a storage call made by an operation fails, the promise the
\* operation returned is rejected: the call is not left pending for ever.
C12_StorageErrorRejects ==
    \A s \in Sessions : call[s].err => call[s].pc = "rejected"

\* C30: a createProcess call whose lookup found nothing and whose insert hit
\* the uniqueness constraint ends with that violation as an error its caller
\* can catch, and the index of the losing instance has no entry of the name.
C30_LostRaceIsReported ==
    \A s \in Sessions :
        (call[s].op = "createProcess" /\ call[s].err)
        => /\ call[s].pc = "rejected"
           /\ call[s].name \notin DOMAIN processList[instanceOf[s]]

\* C14: under every interleaving of createProcess and createJob calls of
\* independent sessions, storage never holds two process rows with the same
\* name nor two job rows with the same (process id, name).
C14_NoDuplicateRows ==
    /\ \A p, q \in processes : p.name = q.name => p = q
    /\ \A j, k \in jobs : (j.process = k.process /\ j.name = k.name) => j = k

\* two independent instances have each issued the insert of the same
\* process name, and each the insert of the same job of one process
C14_Witness ==
    /\ \E e, f \in DOMAIN inserts :
          /\ e.table = "processes" /\ f.table = "processes"
          /\ e.instance # f.instance /\ e.name = f.name
    /\ \E e, f \in DOMAIN inserts :
          /\ e.table = "process_jobs" /\ f.table = "process_jobs"
          /\ e.instance # f.instance /\ e.name = f.name /\ e.process = f.process

\* C15: within one ProcessManager instance at most one insert is issued per
\* normalized process name and per (process id, normalized job name), also
\* when calls for the same name overlap.
C15_OneInsertPerName ==
    \A e \in DOMAIN inserts : inserts[e] <= 1

\* the process row with a given id
ProcessById(id) == CHOOSE p \in processes : p.id = id

\* C16: every entry of the in-memory index agrees with storage:
\* processList[n] is a stored process row named n, and jobList[pn][jn] is a
\* stored job row named jn that belongs to the process indexed under pn.
C16_IndexAgreesWithStorage ==
    \A s \in Sessions :
        /\ \A n \in DOMAIN processList[s] :
              processList[s][n] \in processes /\ processList[s][n].name = n
        /\ \A pn \in DOMAIN jobList[s] :
              /\ pn \in DOMAIN processList[s]
              /\ \A jn \in DOMAIN jobList[s][pn] :
                    /\ jobList[s][pn][jn] \in jobs
                    /\ jobList[s][pn][jn].name = jn
                    /\ jobList[s][pn][jn].process = processList[s][pn].id

\* an index holds two processes, one of them with a job
C16_Witness ==
    \E s \in Sessions :
        /\ Cardinality(DOMAIN processList[s]) = 2
        /\ \E pn \in DOMAIN jobList[s] : jobList[s][pn] # EmptyMap

\* the calls that have returned on the instance of call slot s
ReturnedOn(s) ==
    UNION {{returned[t][i] : i \in DOMAIN returned[t]} :
              t \in {u \in Sessions : instanceOf[u] = instanceOf[s]}}

\* C17: once a call has returned a record, a later getProcess for the
\* record's name (getJob for its process and name) on the same instance is
\* answered from the index without a storage query; and a call that returned
\* a job has indexed the owning process.
C17_ServedFromIndex ==
    [][\A s \in Sessions :
          /\ (call'[s].n = call[s].n + 1 /\ call'[s].op = "getProcess"
              /\ \E r \in ReturnedOn(s) :
                    /\ r.op \in {"createProcess", "getProcess"}
                    /\ r.id # 0 /\ r.name = call'[s].arg)
                => (call'[s].pc = "resolved" /\ call'[s].result.id # 0)
          /\ (call'[s].n = call[s].n + 1 /\ call'[s].op = "getJob"
              /\ \E r \in ReturnedOn(s) :
                    /\ r.op \in {"createJob", "getJob"}
                    /\ r.id # 0 /\ r.name = call'[s].arg
                    /\ r.process = call'[s].process.id)
                => (call'[s].pc = "resolved" /\ call'[s].result.id # 0)
          /\ \A i \in DOMAIN returned'[s] :
                (returned'[s][i].op \in {"createJob", "getJob"} /\ returned'[s][i].id # 0)
                   => ProcessById(returned'[s][i].process).name
                         \in DOMAIN processList'[instanceOf[s]]]_vars

\* on one instance, getProcess and getJob have each returned a record (which
\* only the index can have answered, see C2)
C17_Witness ==
    \E s, t \in Sessions :
        /\ instanceOf[s] = instanceOf[t]
        /\ \E i \in DOMAIN returned[s] :
              returned[s][i].op = "getProcess" /\ returned[s][i].id # 0
        /\ \E j \in DOMAIN returned[t] :
              returned[t][j].op = "getJob" /\ returned[t][j].id # 0

(***************************************************************************)
(* SpecMachine: Machine instances used directly on the rows of two         *)
(* processes with one job each.                                            *)
(***************************************************************************)
MaxCacheRows == 2   \* cache rows created in SpecMachine

OtherStoredJob == [id |-> 2, process |-> 2, name |-> <<"j">>, createdAt |-> 0]
CachePairs == {<<StoredProcess, StoredJob>>, <<OtherStoredProcess, OtherStoredJob>>}
CacheKeys == {"k", "x"}
CacheValues == {"v1", "v2"}

InitMachine ==
    /\ processes = {StoredProcess, OtherStoredProcess}
    /\ jobs = {StoredJob, OtherStoredJob}
    /\ cache = {}
    /\ now = 0
    /\ PMIdle
    /\ MachineIdle
    /\ JobIdle
    /\ NormIdle
    /\ SetupIdle
    /\ LogIdle

MachineFrame == UNCHANGED <<pmVars, machine, jobVars, normVars, logVars, setupVars>>

NextMachine ==
    \/ \E s \in Sessions, pj \in CachePairs, k \in CacheKeys, v \in CacheValues :
          /\ Cardinality(cache) < MaxCacheRows
          /\ MachineCreateCache(s, pj[1], pj[2], k, v)
          /\ MachineFrame
    \/ \E s \in Sessions, pj \in CachePairs, k \in CacheKeys :
          MachineGetCache(s, pj[1], pj[2], k) /\ MachineFrame
    \/ \E s \in Sessions, pj \in CachePairs, k \in CacheKeys :
          MachineHasCacheKey(s, pj[1], pj[2], k) /\ MachineFrame
    \/ \E s \in Sessions, pj \in CachePairs :
          MachineHasCache(s, pj[1], pj[2]) /\ MachineFrame
    \/ Tick

SpecMachine == InitMachine /\ [][NextMachine]_vars

\* the stored cache rows a completed Machine call c is about
RowsIn(rows, c) ==
    {r \in rows : r.process = c.process /\ r.job = c.job /\ r.machine = MachineNameOf(c.s)}

RowsOf(c) == RowsIn(cache, c)

\* C6: getCache(p, j, k) returns every entry stored under the key, the entry
\* created first before the entry created later, whatever their createdAt
\* (ids are given in the order of creation).
C6_GetCacheCreationOrder ==
    (mret.op = "getCache" /\ mret.pc = "resolved") =>
        /\ {mret.rows[i] : i \in 1..Len(mret.rows)} = {r \in RowsOf(mret) : r.key = mret.key}
        /\ \A i, j \in 1..Len(mret.rows) : i < j => mret.rows[i].id < mret.rows[j].id

\* C7: hasCache(p, j) returns false when no cache entry exists for (p, j, this
\* machine), and true when it is called right after a createCache(p, j, k, v)
\* on the same machine has completed.
C7_HasCache ==
    [][(mret'.op = "hasCache" /\ mret'.pc = "resolved") =>
          /\ (RowsIn(cache', mret') = {}) => ~mret'.flag
          /\ (/\ mret.op = "createCache"
              /\ mret.process = mret'.process
              /\ mret.job = mret'.job
              /\ MachineNameOf(mret.s) = MachineNameOf(mret'.s)) => mret'.flag]_vars

\* hasCache has returned true with exactly one entry stored for its triple
C7_Witness ==
    /\ mret.op = "hasCache" /\ mret.flag
    /\ Cardinality(RowsOf(mret)) = 1
    /\ Cardinality(cache) = 1

\* C21: hasCacheKey(p, j, k) returns true if and only if at least one stored
\* cache entry has process p.id, job j.id, key k and this Machine's identifier.
C21_HasCacheKeyIff ==
    (mret.op = "hasCacheKey" /\ mret.pc = "resolved") =>
        (mret.flag <=> \E r \in cache : /\ r.process = mret.process
                                        /\ r.job = mret.job
                                        /\ r.key = mret.key
                                        /\ r.machine = machine[mret.s])

\* hasCacheKey has returned false for a key that another machine has stored
\* for the same process and job, next to an entry of its own under another key
C21_Witness ==
    /\ mret.op = "hasCacheKey" /\ mret.pc = "resolved" /\ ~mret.flag
    /\ \E r \in cache : /\ r.process = mret.process /\ r.job = mret.job
                        /\ r.key = mret.key /\ r.machine # machine[mret.s]
    /\ \E r \in cache : /\ r.process = mret.process /\ r.job = mret.job
                        /\ r.key # mret.key /\ r.machine = machine[mret.s]

\* C22: cache reads are scoped to the machine: an entry created through a
\* Machine with another identifier never appears in a getCache result and
\* never makes hasCache or hasCacheKey true.
C22_ReadsScopedToMachine ==
    LET foreignOnly == \A r \in cache :
                          (r.process = mret.process /\ r.job = mret.job)
                             => r.machine # machine[mret.s]
    IN  mret.pc = "resolved" =>
           /\ mret.op = "getCache" =>
                 \A i \in 1..Len(mret.rows) : mret.rows[i].machine = machine[mret.s]
           /\ (mret.op \in {"hasCache", "hasCacheKey"} /\ foreignOnly) => ~mret.flag

\* with an entry of machine m1 stored for a process and job, machine m2 has
\* read the key of that entry and got nothing
C22_Witness ==
    /\ mret.op = "getCache" /\ mret.pc = "resolved" /\ mret.rows = <<>>
    /\ \E r \in cache : /\ r.process = mret.process /\ r.job = mret.job
                        /\ r.key = mret.key /\ r.machine # machine[mret.s]

(***************************************************************************)
(* SpecLog: Machine instances that write and read logs, and write cache    *)
(* entries, on the rows of two processes with one job each; the Database   *)
(* is on either dialect.                                                   *)
(***************************************************************************)
MaxLogRows == 2   \* log and cache rows created in SpecLog
MaxLogTime == 1   \* largest value of the wall clock in SpecLog

LogMessages == {"msg"}
LogFilterTypes == {{}, {"ERROR"}}
LogOffsets == {{}, {1}}
LogLimits == {{}, {1}}
LogFilters == [type : LogFilterTypes, offset : LogOffsets, limit : LogLimits]

InitLog ==
    /\ processes = {StoredProcess, OtherStoredProcess}
    /\ jobs = {StoredJob, OtherStoredJob}
    /\ cache = {}
    /\ now = 0
    /\ PMIdle
    /\ MachineIdle
    /\ JobIdle
    /\ NormIdle
    /\ SetupIdle
    /\ logs = {}
    /\ lret = NoLogCall
    /\ dialect \in Dialects

LogFrame == UNCHANGED <<storeVars, pmVars, machineVars, jobVars, normVars, setupVars>>

RowsCreated == Cardinality(logs) + Cardinality(cache)

\* the Machine that reads the logs and writes the cache entries: the first;
\* every Machine writes logs
LogReader == CHOOSE s \in Sessions : s - 1 \notin Sessions

NextLog ==
    \/ \E s \in Sessions, pj \in CachePairs, m \in LogMessages, t \in ProcessLogTypes :
          /\ RowsCreated < MaxLogRows
          /\ MachineCreateLog(s, pj[1], pj[2], m, t)
          /\ LogFrame
    \/ \E f \in LogFilters : MachineGetProcessLogs(LogReader, StoredProcess, f) /\ LogFrame
    \/ \E f \in LogFilters : MachineGetJobLogs(LogReader, StoredJob, f) /\ LogFrame
    \/ /\ RowsCreated < MaxLogRows
       /\ MachineCreateCache(LogReader, StoredProcess, StoredJob, "k", "v1")
       /\ MachineFrame
    \/ now < MaxLogTime /\ Tick

SpecLog == InitLog /\ [][NextLog]_vars

\* C18: log and cache entries are append-only: every step keeps every stored
\* log and cache entry as it is (same fields, same values), so both tables
\* only grow.
C18_AppendOnly ==
    [][cache \subseteq cache' /\ logs \subseteq logs']_vars

\* logs and a cache entry were written, and the logs were read afterwards
C18_Witness ==
    /\ logs # {} /\ cache # {}
    /\ lret.op = "getJobLogs" /\ lret.pc = "resolved" /\ lret.rows # <<>>

\* the stored log rows a completed log read c is scoped to
LogScope(c) ==
    {r \in logs : /\ r.process = c.process
                  /\ r.machine = MachineNameOf(c.s)
                  /\ c.op = "getJobLogs" => r.job = c.job}

\* the rows of the scope that pass the type filter of c
TypeFiltered(c) ==
    {r \in LogScope(c) : c.filters.type # {} => r.type \in c.filters.type}

\* C19: getProcessLogs and getJobLogs return log entries by ascending creation
\* time, only entries of filters.type when it is given, and with offset/limit
\* the slice of that ordered, filtered sequence from offset on, of at most
\* limit entries.
C19_LogsOrderedFilteredSliced ==
    (lret.op \in {"getProcessLogs", "getJobLogs"} /\ lret.pc = "resolved") =>
        LET off == IF lret.filters.offset = {} THEN 0 ELSE TheOne(lret.filters.offset)
            all == Cardinality(TypeFiltered(lret))
            rest == IF all > off THEN all - off ELSE 0
            n == IF lret.filters.limit # {} /\ TheOne(lret.filters.limit) < rest
                 THEN TheOne(lret.filters.limit) ELSE rest
        IN  \E o \in Orderings(TypeFiltered(lret)) :
               /\ \A i, j \in 1..all : i < j => o[i].createdAt <= o[j].createdAt
               /\ lret.rows = [i \in 1..n |-> o[off + i]]

\* a read with type, offset and limit has returned the later of two entries
\* of the type, written at different times
C19_Witness ==
    /\ lret.op = "getJobLogs" /\ lret.pc = "resolved"
    /\ lret.filters = [type |-> {"ERROR"}, offset |-> {1}, limit |-> {1}]
    /\ Len(lret.rows) = 1
    /\ \E r \in logs : r.createdAt < lret.rows[1].createdAt

\* C20: with the default filter getProcessLogs returns every log entry stored
\* for (process, machine) and getJobLogs every entry stored for (process, job,
\* machine), whatever their type.
C20_DefaultFilterReturnsAll ==
    (lret.op \in {"getProcessLogs", "getJobLogs"} /\ lret.filters = MACHINE_JOB_LOG_FILTERS_DEFAULT) =>
        /\ lret.pc = "resolved"
        /\ {lret.rows[i] : i \in 1..Len(lret.rows)} = LogScope(lret)

(***************************************************************************)
(* SpecPresence: the cache reads of one Machine on one (process, job),     *)
(* while every Machine adds entries.                                       *)
(***************************************************************************)
MaxPresenceRows == 2   \* cache rows created in SpecPresence

\* the Machine whose reads are followed, and what it reads
PresenceReader == LogReader
PresencePair == <<StoredProcess, StoredJob>>

NextPresence ==
    \/ \E s \in Sessions, pj \in CachePairs, k \in CacheKeys :
          /\ Cardinality(cache) < MaxPresenceRows
          /\ MachineCreateCache(s, pj[1], pj[2], k, "v1")
          /\ MachineFrame
    \/ \E k \in CacheKeys :
          MachineGetCache(PresenceReader, PresencePair[1], PresencePair[2], k) /\ MachineFrame
    \/ \E k \in CacheKeys :
          MachineHasCacheKey(PresenceReader, PresencePair[1], PresencePair[2], k) /\ MachineFrame
    \/ MachineHasCache(PresenceReader, PresencePair[1], PresencePair[2]) /\ MachineFrame

SpecPresence == InitMachine /\ [][NextPresence]_vars

\* the call that completed last is op(p, j, key) of the followed Machine
Answered(op, key) ==
    /\ mret.op = op /\ mret.pc = "resolved" /\ mret.s = PresenceReader
    /\ mret.process = PresencePair[1].id /\ mret.job = PresencePair[2].id /\ mret.key = key

\* C33: cache presence is monotonic and consistent.  Once hasCache(p, j) or
\* hasCacheKey(p, j, k) has returned true on a machine, every later call with
\* these arguments on that machine returns true, and from then on hasCache(p, j)
\* returns true and getCache(p, j, k) is not empty; and of two calls made in
\* one storage state, hasCacheKey(p, j, k) is true only if hasCache(p, j) is
\* true and getCache(p, j, k) is not empty.
C33_CachePresenceMonotonic ==
    /\ [](Answered("hasCache", "") /\ mret.flag
            => [](Answered("hasCache", "") => mret.flag))
    /\ \A k \in CacheKeys :
          [](Answered("hasCacheKey", k) /\ mret.flag
                => [](/\ Answered("hasCacheKey", k) => mret.flag
                      /\ Answered("hasCache", "") => mret.flag
                      /\ Answered("getCache", k) => mret.rows # <<>>))
    /\ [][(/\ cache' = cache
           /\ mret.pc = "resolved" /\ mret'.pc = "resolved"
           /\ mret'.s = mret.s /\ mret'.process = mret.process /\ mret'.job = mret.job)
          => /\ (mret.op = "hasCache" /\ ~mret.flag /\ mret'.op = "hasCacheKey")
                   => ~mret'.flag
             /\ (mret.op = "getCache" /\ mret.rows = <<>> /\ mret'.op = "hasCacheKey"
                 /\ mret'.key = mret.key) => ~mret'.flag]_vars

\* hasCacheKey(p, j, "k") has returned true again after an entry under
\* another key was added to the entry under "k"
C33_Witness ==
    /\ Answered("hasCacheKey", "k") /\ mret.flag
    /\ \E r, q \in RowsOf(mret) : r.key = "k" /\ q.key = "x" /\ r.id < q.id

(***************************************************************************)
(* SpecJob: Job facades, each with its own ProcessManager and Machine,     *)
(* over a store that earlier executions may have filled.                   *)
(***************************************************************************)
MaxLoads == 2          \* load() calls per Job
MaxJobCacheRows == 3   \* cache rows created in SpecJob

JobProcessNames == {<<"F", "o">>, <<"b">>}
JobCacheKeys == {"a", "b"}
JobCacheValues == {"v1"}

InitJob ==
    /\ syncs = [s \in Sessions |-> NoSyncs]
    /\ \E st \in EarlierStores : processes = st.processes /\ jobs = st.jobs
    /\ cache = {}
    /\ now = 0
    /\ PMIdle
    /\ MachineIdle
    /\ thisProcessName \in [Sessions -> JobProcessNames]
    /\ thisJobName = [s \in Sessions |-> <<"J">>]
    /\ thisProcess = [s \in Sessions |-> NullProcess]
    /\ thisProcessJob = [s \in Sessions |-> NullJob]
    /\ cacheResults = [s \in Sessions |-> EmptyMap]
    /\ cacheTree = [s \in Sessions |-> EmptyMap]
    /\ jpc = [s \in Sessions |-> "new"]
    /\ loads = [s \in Sessions |-> [started |-> 0, resolved |-> 0]]
    /\ hooks = [s \in Sessions |-> <<>>]
    /\ probe = [s \in Sessions |-> NoProbe]
    /\ NormIdle
    /\ SetupIdle
    /\ LogIdle

\* the Job whose facade is used after load(); the other Jobs only load
Facade == CHOOSE s \in Sessions : s - 1 \notin Sessions

\* a step of the Job's ProcessManager leaves the facade and the Machine alone
ManagerFrame == UNCHANGED <<machineVars, jobVars, normVars, logVars, setupVars>>

NextJob ==
    \/ \E s \in Sessions : loads[s].started < MaxLoads /\ JobLoad(s) /\ UNCHANGED <<normVars, logVars, setupVars>>
    \/ \E s \in Sessions : FindOneProcessDone(s) /\ ManagerFrame
    \/ \E s \in Sessions : CreateProcessDone(s) /\ ManagerFrame
    \/ \E s \in Sessions : LoadProcessResolved(s) /\ UNCHANGED <<normVars, logVars, setupVars>>
    \/ \E s \in Sessions : FindOneJobDone(s) /\ ManagerFrame
    \/ \E s \in Sessions : CreateJobDone(s) /\ ManagerFrame
    \/ \E s \in Sessions : LoadJobResolved(s) /\ UNCHANGED <<normVars, logVars, setupVars>>
    \/ \E s \in Sessions : LoadHasCacheDone(s) /\ UNCHANGED <<normVars, logVars, setupVars>>
    \/ \E s \in Sessions : LoadSyncCacheDone(s) /\ UNCHANGED <<normVars, logVars, setupVars>>
    \/ SyncCache(Facade) /\ UNCHANGED <<normVars, logVars, setupVars>>
    \/ SyncCacheDone(Facade) /\ UNCHANGED <<normVars, logVars, setupVars>>
    \/ \E k \in JobCacheKeys, v \in JobCacheValues :
          /\ Cardinality(cache) < MaxJobCacheRows
          /\ JobCreateCache(Facade, k, v)
          /\ UNCHANGED <<normVars, logVars, setupVars>>

SpecJob == InitJob /\ [][NextJob]_vars

\* C3: Job.load() completes for every initial storage content: a load whose
\* storage calls succeeded is never left waiting on a promise that can no
\* longer settle.
C3_LoadCompletes ==
    \A s \in Sessions :
        ~(/\ jpc[s] \in {"createProcess", "createJob"}
          /\ call[s].pc = "pending"
          /\ ~call[s].err)

\* C8: every load() that resolved invoked exactly one extension point:
\* onCacheExist when a cache entry of the Job's (process, job, machine)
\* existed at the hasCache probe, onCacheEmpty otherwise.
C8_ExactlyOneHook ==
    \A s \in Sessions :
        /\ jpc[s] \in {"new", "loaded", "sync"} => Len(hooks[s]) = loads[s].resolved
        /\ Len(hooks[s]) <= loads[s].started
        /\ \A i \in DOMAIN hooks[s] :
              hooks[s][i].hook = IF hooks[s][i].existed THEN "onCacheExist" ELSE "onCacheEmpty"

\* a Job has loaded twice, once into onCacheEmpty and once into onCacheExist
C8_Witness ==
    \E s \in Sessions :
        /\ jpc[s] = "loaded"
        /\ loads[s].resolved = 2
        /\ hooks[s] = <<[hook |-> "onCacheEmpty", existed |-> FALSE],
                        [hook |-> "onCacheExist", existed |-> TRUE]>>

\* C9: once a syncCache() has completed, cacheResults maps exactly the ids of
\* the fetched entries to these entries, cacheTree has exactly one key per
\* distinct cache key, holding exactly the fetched entries of that key, and
\* the fetched entries are all the entries stored for the Job at the fetch.
C9_ViewsMatchFetch ==
    \A s \in Sessions :
        (probe[s].synced /\ jpc[s] = "loaded") =>
            LET fetched == probe[s].fetched
            IN  /\ fetched = probe[s].stored
                /\ DOMAIN cacheResults[s] = {r.id : r \in fetched}
                /\ \A r \in fetched : cacheResults[s][r.id] = r
                /\ DOMAIN cacheTree[s] = {r.key : r \in fetched}
                /\ \A k \in DOMAIN cacheTree[s] :
                      /\ DOMAIN cacheTree[s][k] = {r.id : r \in {x \in fetched : x.key = k}}
                      /\ \A r \in {x \in fetched : x.key = k} : cacheTree[s][k][r.id] = r

\* a sync has completed over entries with keys a, a, b
C9_Witness ==
    \E s \in Sessions :
        /\ probe[s].synced /\ jpc[s] = "loaded"
        /\ DOMAIN cacheTree[s] = {"a", "b"}
        /\ Cardinality(DOMAIN cacheTree[s]["a"]) = 2
        /\ Cardinality(DOMAIN cacheTree[s]["b"]) = 1
        /\ Cardinality(DOMAIN cacheResults[s]) = 3

\* C13: a facade operation called before load() has completed (the Job's
\* process or job is still null) ends in an error the caller can see: its
\* promise is rejected, not left pending for ever.
C13_PreLoadCallFailsFast ==
    (mret.op # "none" /\ (mret.process = 0 \/ mret.job = 0)) => mret.pc = "rejected"

\* C26: whenever load() invokes onCacheExist(), the views are built:
\* cacheResults is not empty and cacheTree has an entry for every key that the
\* stored cache of the Job's (process, job, machine) had at the hasCache
\* probe, also when entries were appended between the probe and the sync.
C26_ViewsBuiltBeforeOnCacheExist ==
    [][\A s \in Sessions :
          (/\ Len(hooks'[s]) = Len(hooks[s]) + 1
           /\ hooks'[s][Len(hooks'[s])].hook = "onCacheExist")
          => /\ cacheResults'[s] # EmptyMap
             /\ \A r \in probe[s].probed : r.key \in DOMAIN cacheTree'[s]]_vars

\* onCacheExist was the last hook of a load whose sync fetched more entries
\* than the probe had seen
C26_Witness ==
    \E s \in Sessions :
        /\ jpc[s] = "loaded" /\ probe[s].synced
        /\ Len(hooks[s]) > 0
        /\ hooks[s][Len(hooks[s])].hook = "onCacheExist"
        /\ probe[s].probed # {}
        /\ probe[s].probed # probe[s].fetched
        /\ probe[s].probed \subseteq probe[s].fetched

\* C29: a second load() of a Job inserts no process row and no job row, asks
\* storage for neither, and leaves the resolved process id and job id as the
\* first load set them.
C29_SecondLoadIdempotent ==
    [][\A s \in Sessions :
          (/\ loads[s].resolved >= 1
           /\ (call'[s] # call[s] \/ jpc'[s] # jpc[s]))
          => /\ processes' = processes /\ jobs' = jobs /\ inserts' = inserts
             /\ call'[s].pc = "resolved"
             /\ thisProcess'[s].id = thisProcess[s].id
             /\ thisProcessJob'[s].id = thisProcessJob[s].id]_vars

\* a Job has completed its second load
C29_Witness ==
    \E s \in Sessions :
        /\ loads[s].resolved = 2 /\ jpc[s] = "loaded"
        /\ thisProcess[s].id # 0 /\ thisProcessJob[s].id # 0

(***************************************************************************)
(* SpecSync: one Job that loads and then calls syncCache() and createCache *)
(* in any order, the syncCache() calls overlapping.                        *)
(***************************************************************************)
MaxSyncs == 2          \* syncCache() calls of the Job
MaxSyncRows == 2       \* cache rows created in SpecSync

SyncFrame == UNCHANGED <<normVars, logVars, setupVars>>

\* load() is called once, on a Job without cache, so that it does not reach
\* its own syncCache()
NextSync ==
    \/ jpc[Facade] = "new" /\ JobLoad(Facade) /\ SyncFrame
    \/ FindOneProcessDone(Facade) /\ ManagerFrame
    \/ CreateProcessDone(Facade) /\ ManagerFrame
    \/ LoadProcessResolved(Facade) /\ SyncFrame
    \/ FindOneJobDone(Facade) /\ ManagerFrame
    \/ CreateJobDone(Facade) /\ ManagerFrame
    \/ LoadJobResolved(Facade) /\ SyncFrame
    \/ LoadHasCacheDone(Facade) /\ SyncFrame
    \/ syncs[Facade].started < MaxSyncs /\ SyncCacheCalled(Facade) /\ SyncFrame
    \/ \E f \in syncs[Facade].flight : SyncCacheFetched(Facade, f) /\ SyncFrame
    \/ \E f \in syncs[Facade].flight : SyncCacheResumed(Facade, f) /\ SyncFrame
    \/ \E k \in JobCacheKeys, v \in JobCacheValues :
          /\ Cardinality(cache) < MaxSyncRows
          /\ jpc[Facade] = "loaded"
          /\ JobCreateCache(Facade, k, v)
          /\ SyncFrame

SpecSync == InitJob /\ [][NextSync]_vars

\* the entries in cacheTree[s], over all keys
TreeEntries(s) ==
    UNION {{cacheTree[s][k][id] : id \in DOMAIN cacheTree[s][k]} : k \in DOMAIN cacheTree[s]}

\* C34: the two views of a Job agree in every reachable state, the states in
\* the middle of a syncCache included: the ids in cacheResults are the ids
\* under all keys of cacheTree, each id is under exactly one key, and that
\* key is the entry's own cache key.
C34_ViewsAgree ==
    \A s \in Sessions :
        /\ DOMAIN cacheResults[s] = UNION {DOMAIN cacheTree[s][k] : k \in DOMAIN cacheTree[s]}
        /\ \A k, l \in DOMAIN cacheTree[s] :
              k # l => DOMAIN cacheTree[s][k] \cap DOMAIN cacheTree[s][l] = {}
        /\ \A k \in DOMAIN cacheTree[s] : \A id \in DOMAIN cacheTree[s][k] :
              /\ cacheTree[s][k][id].key = k
              /\ cacheTree[s][k][id].id = id
              /\ cacheResults[s][id] = cacheTree[s][k][id]

\* a syncCache has filled the views with entries of two keys while another
\* syncCache is still waiting
C34_Witness ==
    /\ Cardinality(DOMAIN cacheTree[Facade]) = 2
    /\ Cardinality(DOMAIN cacheResults[Facade]) = 2
    /\ syncs[Facade].flight # {}

\* C35: under every interleaving of syncCache calls of one Job with each
\* other and with createCache calls, once all calls have completed the views
\* hold only entries that storage has for the Job's (process, job, machine),
\* every such entry stored before the last syncCache started, and every entry
\* that a syncCache completed earlier had loaded.
C35_OverlappingSyncsComplete ==
    \A s \in Sessions :
        (syncs[s].started > 0 /\ syncs[s].flight = {}) =>
            LET inResults == {cacheResults[s][id] : id \in DOMAIN cacheResults[s]}
            IN  /\ inResults \subseteq OwnCacheRows(s)
                /\ TreeEntries(s) \subseteq OwnCacheRows(s)
                /\ syncs[s].lastBefore \subseteq inResults
                /\ syncs[s].lastBefore \subseteq TreeEntries(s)
                /\ syncs[s].loaded \subseteq inResults
                /\ syncs[s].loaded \subseteq TreeEntries(s)

\* two overlapping syncCache calls have completed, the second started after
\* two entries were stored
C35_Witness ==
    /\ syncs[Facade].started = 2 /\ syncs[Facade].flight = {}
    /\ syncs[Facade].overlapped
    /\ Cardinality(syncs[Facade].lastBefore) = 2
    /\ Cardinality(DOMAIN cacheResults[Facade]) = 2

(***************************************************************************)
(* SpecSetup: the Main of the README's "How to Use", one per session, each *)
(* in its own Node process with its own Database.  main[s] is where the    *)
(* Main is:                                                                *)
(*   "start"       nothing done                                            *)
(*   "connected"   ProcessCacheDatabase.createConnection returned          *)
(*   "constructed" the Job subclass is constructed                         *)
(*   "loading"     await job.load()                                        *)
(*   "running"     load() resolved, job.run() is under way                 *)
(*   "disposed"    database.dispose() was called                           *)
(* A caller may, beside what the README shows, construct a ProcessManager  *)
(* on the connection and call its load(), which registers the models.      *)
(***************************************************************************)
MaxRunRows == 2        \* rows in a table up to which run() adds a further one

RunLogTypes == {"WARNING"}

InitSetup ==
    /\ \E st \in EarlierStores : processes = st.processes /\ jobs = st.jobs
    /\ cache = {}
    /\ now = 0
    /\ PMIdle
    /\ MachineIdle
    /\ JobIdle
    /\ NormIdle
    /\ LogIdle
    /\ models = [s \in Sessions |-> {}]
    /\ main = [s \in Sessions |-> "start"]
    /\ missing = [s \in Sessions |-> {}]

\* ProcessCacheDatabase.createConnection(options): new Database(options), a
\* Sequelize instance on which no model is defined
MainCreateConnection(s) ==
    /\ main[s] = "start"
    /\ main' = [main EXCEPT ![s] = "connected"]
    /\ models' = [models EXCEPT ![s] = {}]
    /\ UNCHANGED <<storeVars, pmVars, machineVars, jobVars, normVars, logVars, missing>>

\* new ProcessManager(database).load(): the four factories are initiated on
\* the connection
ManagerLoad(s) ==
    /\ main[s] = "connected"
    /\ models[s] # ModelNames
    /\ models' = [models EXCEPT ![s] = ModelNames]
    /\ UNCHANGED <<storeVars, pmVars, machineVars, jobVars, normVars, logVars, main, missing>>

\* new HelloWorldJob(database, machineName): the Job constructor
MainConstruct(s, processName, jobName) ==
    /\ main[s] = "connected"
    /\ main' = [main EXCEPT ![s] = "constructed"]
    /\ thisProcessName' = [thisProcessName EXCEPT ![s] = processName]
    /\ thisJobName' = [thisJobName EXCEPT ![s] = jobName]
    /\ thisProcess' = [thisProcess EXCEPT ![s] = NullProcess]
    /\ thisProcessJob' = [thisProcessJob EXCEPT ![s] = NullJob]
    /\ cacheResults' = [cacheResults EXCEPT ![s] = EmptyMap]
    /\ cacheTree' = [cacheTree EXCEPT ![s] = EmptyMap]
    /\ UNCHANGED <<storeVars, pmVars, machineVars, jpc, loads, hooks, probe, syncs, normVars, logVars,
                   models, missing>>

\* await helloWorldJob.load(): load() runs into createProcess, whose
\* ProcessModel.findOne is the first use of a model.  On a Process class that
\* no factory initiated the call throws inside the executor of createProcess.
MainLoad(s) ==
    /\ main[s] = "constructed"
    /\ main' = [main EXCEPT ![s] = "loading"]
    /\ IF "Process" \in models[s]
       THEN /\ JobLoad(s)
            /\ UNCHANGED missing
       ELSE /\ call' = [call EXCEPT ![s] =
                           [NewCall(s, "createProcess", thisProcessName[s],
                                    CreateProcessName(thisProcessName[s]), NullProcess)
                               EXCEPT !.pc = "pending", !.err = TRUE]]
            /\ jpc' = [jpc EXCEPT ![s] = "createProcess"]
            /\ loads' = [loads EXCEPT ![s].started = @ + 1]
            /\ missing' = [missing EXCEPT ![s] = @ \cup {"Process"}]
            /\ UNCHANGED <<storeVars, processList, jobList, returned, instanceOf, inserts,
                           machineVars, thisProcessName, thisJobName, syncs, thisProcess,
                           thisProcessJob, cacheResults, cacheTree, hooks, probe>>
    /\ UNCHANGED <<normVars, logVars, models>>

\* load() has resolved and run() starts with createLog('Operation running')
MainRun(s) ==
    /\ main[s] = "loading"
    /\ jpc[s] = "loaded"
    /\ main' = [main EXCEPT ![s] = "running"]
    /\ JobCreateLog(s, "Operation running", "GENERIC")
    /\ UNCHANGED <<normVars, models, missing>>

\* run(): a further createLog
RunCreateLog(s, message, logType) ==
    /\ main[s] = "running"
    /\ JobCreateLog(s, message, logType)
    /\ UNCHANGED <<normVars, setupVars>>

\* run(): hasCache()
RunHasCache(s) ==
    /\ main[s] = "running"
    /\ JobHasCache(s)
    /\ UNCHANGED <<normVars, logVars, setupVars>>

\* run(): createCache(key, value)
RunCreateCache(s, key, value) ==
    /\ main[s] = "running"
    /\ JobCreateCache(s, key, value)
    /\ UNCHANGED <<normVars, logVars, setupVars>>

\* await database.dispose()
MainDispose(s) ==
    /\ main[s] = "running"
    /\ main' = [main EXCEPT ![s] = "disposed"]
    /\ UNCHANGED <<storeVars, pmVars, machineVars, jobVars, normVars, logVars, models, missing>>

\* a step of load() leaves the Main where it is
SetupFrame == UNCHANGED <<normVars, logVars, setupVars>>

\* load() cannot reach syncCache here: the process a load completes on was
\* created by that load, and no cache entry of it exists before run()
NextSetup ==
    \/ \E s \in Sessions : MainCreateConnection(s)
    \/ \E s \in Sessions : ManagerLoad(s)
    \/ \E s \in Sessions, n \in JobProcessNames : MainConstruct(s, n, <<"J">>)
    \/ \E s \in Sessions : MainLoad(s)
    \/ \E s \in Sessions : FindOneProcessDone(s) /\ ManagerFrame
    \/ \E s \in Sessions : CreateProcessDone(s) /\ ManagerFrame
    \/ \E s \in Sessions : LoadProcessResolved(s) /\ SetupFrame
    \/ \E s \in Sessions : FindOneJobDone(s) /\ ManagerFrame
    \/ \E s \in Sessions : CreateJobDone(s) /\ ManagerFrame
    \/ \E s \in Sessions : LoadJobResolved(s) /\ SetupFrame
    \/ \E s \in Sessions : LoadHasCacheDone(s) /\ SetupFrame
    \/ \E s \in Sessions : MainRun(s)
    \/ \E s \in Sessions, t \in RunLogTypes :
          Cardinality(logs) < MaxRunRows /\ RunCreateLog(s, "msg", t)
    \/ \E s \in Sessions : RunHasCache(s)
    \/ \E s \in Sessions, k \in JobCacheKeys, v \in JobCacheValues :
          Cardinality(cache) < MaxRunRows /\ RunCreateCache(s, k, v)
    \/ \E s \in Sessions : MainDispose(s)

SpecSetup == InitSetup /\ [][NextSetup]_vars

\* C24: every row written through a loaded Job carries the Job's own
\* identifiers: createCache(k, v) inserts exactly one cache row with the
\* loaded process id, the loaded job id, the constructor's machine name, key k
\* and value v; createLog inserts exactly one log row with the same three
\* identifiers; neither changes a process row, a job row or an entry stored
\* before.
C24_FacadeRowsCarryOwnIds ==
    [][/\ cache' # cache =>
             /\ mret'.op = "createCache" /\ mret'.pc = "resolved"
             /\ \E r \in cache' \ cache :
                   /\ cache' = cache \cup {r}
                   /\ r.process = thisProcess[mret'.s].id /\ r.process # 0
                   /\ r.job = thisProcessJob[mret'.s].id /\ r.job # 0
                   /\ r.machine = machine[mret'.s]
                   /\ r.key = mret'.key /\ r.value = mret'.value
             /\ processes' = processes /\ jobs' = jobs /\ logs' = logs
       /\ logs' # logs =>
             /\ lret'.op = "createLog" /\ lret'.pc = "resolved"
             /\ \E r \in logs' \ logs :
                   /\ logs' = logs \cup {r}
                   /\ r.process = thisProcess[lret'.s].id /\ r.process # 0
                   /\ r.job = thisProcessJob[lret'.s].id /\ r.job # 0
                   /\ r.machine = machine[lret'.s]
             /\ processes' = processes /\ jobs' = jobs /\ cache' = cache
       /\ (mret' # mret /\ mret'.op = "createCache" /\ mret'.pc = "resolved")
             => cache' # cache
       /\ (lret' # lret /\ lret'.op = "createLog" /\ lret'.pc = "resolved")
             => logs' # logs]_vars

\* a loaded Job has written a cache row after an earlier one, and log rows
C24_Witness ==
    \E s \in Sessions :
        /\ main[s] = "running"
        /\ Cardinality(OwnCacheRows(s)) >= 2
        /\ Cardinality({r \in logs : /\ r.process = thisProcess[s].id
                                     /\ r.job = thisProcessJob[s].id
                                     /\ r.machine = machine[s]}) >= 2

\* C25: on the README's sequence (create a connection, construct a Job
\* subclass, await load(), then createLog / hasCache / createCache) every
\* model an operation uses is registered on the connection before its first
\* use.
C25_ModelsRegisteredBeforeUse ==
    \A s \in Sessions : main[s] \in {"loading", "running", "disposed"} => missing[s] = {}

(***************************************************************************)
(* The normalizer as a state machine: the function is applied to the raw   *)
(* input, then to its own output.                                          *)
(***************************************************************************)
\* the raw names of the documented examples: "Foo Bar", "a--b***c" and
\* "  Hello, World.  "
FooBar == <<"F", "o", "o", " ", "B", "a", "r">>
DashesAndStars == <<"a", "-", "-", "b", "*", "*", "*", "c">>
HelloWorld == <<" ", " ", "H", "e", "l", "l", "o", ",", " ", "W", "o", "r", "l", "d", ".", " ", " ">>
ExampleNames == {FooBar, DashesAndStars, HelloWorld}

InitNorm ==
    /\ normIn \in StringsUpTo(MaxLen) \cup ExampleNames
    /\ normFn \in {"process", "job"}
    /\ normOut = <<>>
    /\ processes = {} /\ jobs = {} /\ cache = {} /\ now = 0
    /\ PMIdle
    /\ MachineIdle
    /\ JobIdle
    /\ LogIdle
    /\ SetupIdle

NormLast == IF normOut = <<>> THEN normIn ELSE normOut[Len(normOut)]

ApplyFormatProcessName ==
    /\ normFn = "process"
    /\ Len(normOut) < 2
    /\ normOut' = Append(normOut, formatProcessName(NormLast))
    /\ UNCHANGED <<normIn, normFn, storeVars, pmVars, machineVars, jobVars, logVars, setupVars>>

ApplyFormatJobName ==
    /\ normFn = "job"
    /\ Len(normOut) < 2
    /\ normOut' = Append(normOut, formatJobName(NormLast))
    /\ UNCHANGED <<normIn, normFn, storeVars, pmVars, machineVars, jobVars, logVars, setupVars>>

NextNorm == ApplyFormatProcessName \/ ApplyFormatJobName

SpecNorm == InitNorm /\ [][NextNorm]_vars

\* C10: the normalizer is idempotent: applying it to its own output returns
\* that output unchanged, for formatProcessName and for formatJobName, and
\* formatJobName gives what formatProcessName gives.
C10_NormalizerIdempotent ==
    /\ Len(normOut) = 2 => normOut[2] = normOut[1]
    /\ (normFn = "job" /\ Len(normOut) >= 1) => normOut[1] = formatProcessName(normIn)

\* a raw name with both cases and a run of separators was normalized twice
C10_Witness ==
    /\ Len(normOut) = 2
    /\ normIn = <<"A", "*", " ">>
    /\ normOut[1] = <<"a", "-">>

\* C11: the normalizer maps "Foo Bar" to "foo-bar", "a--b***c" to "a-b-c" and
\* "  Hello, World.  " to "hello-world".
C11_NormalizerExamples ==
    Len(normOut) >= 1 =>
        /\ normIn = FooBar => normOut[1] = <<"f", "o", "o", "-", "b", "a", "r">>
        /\ normIn = DashesAndStars => normOut[1] = <<"a", "-", "b", "-", "c">>
        /\ normIn = HelloWorld =>
              normOut[1] = <<"h", "e", "l", "l", "o", "-", "w", "o", "r", "l", "d">>

\* the characters that toLowerCase changes
UpperCase == {c \in Alphabet \cup {"F", "J", "H", "W", "B"} : LowerChar(c) # c}

\* C31: every output of the normalizer has no whitespace, no '*', ',' or '.',
\* no upper-case letter and no two consecutive dashes; an empty or
\* whitespace-only input gives the empty string.
C31_NormalizerOutputClean ==
    /\ \A i \in DOMAIN normOut :
          LET out == normOut[i]
          IN  /\ \A k \in DOMAIN out : out[k] \notin WhiteSpace \cup {"*", ",", "."} \cup UpperCase
              /\ \A k \in 1..(Len(out) - 1) : ~(out[k] = "-" /\ out[k + 1] = "-")
    /\ (Len(normOut) >= 1 /\ \A k \in DOMAIN normIn : normIn[k] \in WhiteSpace)
          => normOut[1] = <<>>

\* "*A." was normalized, to "-a-"
C31_Witness ==
    /\ normIn = <<"*", "A", ".">>
    /\ Len(normOut) >= 1
    /\ normOut[1] = <<"-", "a", "-">>

=============================================================================
